---- MODULE Spec2Model ----
(***************************************************************************)
(* A model of the lead scraper: GoogleMapsScraper.search_businesses and    *)
(* enrich_missing_phones (src/google_maps_scraper.py), and the orchestrator*)
(* LeadScraper.scrape_leads / run_full_pipeline (src/main.py).             *)
(*                                                                         *)
(* Python strings are TLA+ strings; a character is a string of length 1    *)
(* and s[i] is SubSeq(s, i, i).  Python's None is the string NONE, which   *)
(* no text of the model contains.  The browser (Selenium) is the           *)
(* environment: what a page shows, what the feed renders, whether a scroll *)
(* moves and whether a browser call raises are chosen with \E in the       *)
(* action that makes the call.                                             *)
(***************************************************************************)
EXTENDS Integers, Sequences, FiniteSets, TLC

(***************************************************************************)
(* Strings                                                                 *)
(***************************************************************************)
NONE == "<None>"
NA == "N/A"

Digits == {"0", "1", "2", "3", "4", "5", "6", "7", "8", "9"}
Lowers == {"a", "b", "c", "d", "e", "f", "g", "h", "i", "j", "k", "l", "m",
           "n", "o", "p", "q", "r", "s", "t", "u", "v", "w", "x", "y", "z"}
Uppers == {"A", "B", "C", "D", "E", "F", "G", "H", "I", "J", "K", "L", "M",
           "N", "O", "P", "Q", "R", "S", "T", "U", "V", "W", "X", "Y", "Z"}
Letters == Lowers \cup Uppers
Spaces == {" ", "\n", "\t", "\r"}

Ch(s, i) == SubSeq(s, i, i)

Min(a, b) == IF a < b THEN a ELSE b

Max(a, b) == IF a > b THEN a ELSE b

\* str.startswith
StartsWith(s, p) == Len(p) <= Len(s) /\ SubSeq(s, 1, Len(p)) = p

\* str.find, 1-based from position i; 0 when absent
RECURSIVE FindFrom(_, _, _)
FindFrom(s, sub, i) ==
    IF i + Len(sub) - 1 > Len(s) THEN 0
    ELSE IF SubSeq(s, i, i + Len(sub) - 1) = sub THEN i
    ELSE FindFrom(s, sub, i + 1)

\* sub in s
Contains(s, sub) == FindFrom(s, sub, 1) # 0

RECURSIVE LStrip(_)
LStrip(s) ==
    IF Len(s) > 0 /\ Ch(s, 1) \in Spaces THEN LStrip(SubSeq(s, 2, Len(s))) ELSE s

RECURSIVE RStrip(_)
RStrip(s) ==
    IF Len(s) > 0 /\ Ch(s, Len(s)) \in Spaces THEN RStrip(SubSeq(s, 1, Len(s) - 1)) ELSE s

\* a strip that removes nothing
StripNothing(s) == s

\* str.strip()
Strip(s) == RStrip(LStrip(s))

\* str.split(sep): the pieces between the occurrences of a non-empty sep
RECURSIVE Split(_, _)
Split(s, sep) ==
    LET i == FindFrom(s, sep, 1)
    IN  IF i = 0 THEN <<s>>
        ELSE <<SubSeq(s, 1, i - 1)>> \o Split(SubSeq(s, i + Len(sep), Len(s)), sep)

\* str.split(sep, 1)[1]: what follows the first occurrence of sep (sep occurs)
AfterFirst(s, sep) == SubSeq(s, FindFrom(s, sep, 1) + Len(sep), Len(s))

\* str.split(): the maximal runs of non-whitespace characters
RECURSIVE SplitWs(_)
SplitWs(s) ==
    LET t == LStrip(s)
        RECURSIVE WordEnd(_)
        WordEnd(i) == IF i > Len(t) \/ Ch(t, i) \in Spaces THEN i - 1 ELSE WordEnd(i + 1)
    IN  IF t = "" THEN <<>>
        ELSE LET e == WordEnd(1)
             IN  <<SubSeq(t, 1, e)>> \o SplitWs(SubSeq(t, e + 1, Len(t)))

\* str.replace(old, new), old non-empty
RECURSIVE Replace(_, _, _)
Replace(s, old, new) ==
    LET i == FindFrom(s, old, 1)
    IN  IF i = 0 THEN s
        ELSE SubSeq(s, 1, i - 1) \o new \o Replace(SubSeq(s, i + Len(old), Len(s)), old, new)

UpperOf == [c \in Lowers |->
    CASE c = "a" -> "A" [] c = "b" -> "B" [] c = "c" -> "C" [] c = "d" -> "D"
      [] c = "e" -> "E" [] c = "f" -> "F" [] c = "g" -> "G" [] c = "h" -> "H"
      [] c = "i" -> "I" [] c = "j" -> "J" [] c = "k" -> "K" [] c = "l" -> "L"
      [] c = "m" -> "M" [] c = "n" -> "N" [] c = "o" -> "O" [] c = "p" -> "P"
      [] c = "q" -> "Q" [] c = "r" -> "R" [] c = "s" -> "S" [] c = "t" -> "T"
      [] c = "u" -> "U" [] c = "v" -> "V" [] c = "w" -> "W" [] c = "x" -> "X"
      [] c = "y" -> "Y" [] c = "z" -> "Z"]

LowerOf == [c \in Uppers |-> CHOOSE d \in Lowers : UpperOf[d] = c]

\* str.upper()
RECURSIVE Upper(_)
Upper(s) ==
    IF s = "" THEN ""
    ELSE (IF Ch(s, 1) \in Lowers THEN UpperOf[Ch(s, 1)] ELSE Ch(s, 1))
         \o Upper(SubSeq(s, 2, Len(s)))

\* str.lower()
RECURSIVE Lower(_)
Lower(s) ==
    IF s = "" THEN ""
    ELSE (IF Ch(s, 1) \in Uppers THEN LowerOf[Ch(s, 1)] ELSE Ch(s, 1))
         \o Lower(SubSeq(s, 2, Len(s)))

\* any(ch in cls for ch in s)
HasCharIn(s, cls) == \E i \in 1..Len(s) : Ch(s, i) \in cls

\* str.isalpha(): non-empty and every character a letter
IsAlpha(s) == s # "" /\ \A i \in 1..Len(s) : Ch(s, i) \in Letters

\* [x for x in seq if keep(x)] for the stripped, non-empty lines of a text
RECURSIVE NonEmptyStripped(_)
NonEmptyStripped(seq) ==
    IF seq = <<>> THEN <<>>
    ELSE (IF Strip(Head(seq)) # "" THEN <<Strip(Head(seq))>> ELSE <<>>)
         \o NonEmptyStripped(Tail(seq))

(***************************************************************************)
(* Regular expressions (module re).  Every pattern of the source is a      *)
(* concatenation of character classes with greedy quantifiers, so a        *)
(* pattern is a sequence of items [cls, lo, hi] (hi = -1: unbounded) and   *)
(* re.search is leftmost-first backtracking over the item counts, largest  *)
(* count first.  The class tags: "digit" \d, "space" \s, "nonspace" [^\s], *)
(* "sep" [\s\-\.], "phonech" [\d\-\.\s\(\)], "any" . ; any other tag is    *)
(* the literal character itself.  STAR stands for the star glyph U+2605.   *)
(***************************************************************************)
STAR == "*"

InClass(c, cls) ==
    CASE cls = "digit" -> c \in Digits
      [] cls = "space" -> c \in Spaces
      [] cls = "nonspace" -> c \notin Spaces
      [] cls = "sep" -> c \in Spaces \cup {"-", "."}
      [] cls = "phonech" -> c \in Digits \cup Spaces \cup {"-", ".", "(", ")"}
      [] cls = "any" -> c # "\n"
      [] OTHER -> c = cls

One(cls) == [cls |-> cls, lo |-> 1, hi |-> 1]

Opt(cls) == [cls |-> cls, lo |-> 0, hi |-> 1]

Rep(cls, lo, hi) == [cls |-> cls, lo |-> lo, hi |-> hi]

RECURSIVE Lit(_)
Lit(s) == IF s = "" THEN <<>> ELSE <<One(Ch(s, 1))>> \o Lit(SubSeq(s, 2, Len(s)))

\* the number of characters from pos on that are in cls, at most cap
RECURSIVE RunLen(_, _, _, _)
RunLen(s, pos, cls, cap) ==
    IF cap = 0 \/ pos > Len(s) \/ ~InClass(Ch(s, pos), cls) THEN 0
    ELSE 1 + RunLen(s, pos + 1, cls, IF cap < 0 THEN cap ELSE cap - 1)

NoMatch == <<-1>>

\* items k.. of pat matched at pos: the position after each item, or NoMatch
RECURSIVE MatchItems(_, _, _, _)
RECURSIVE TryCount(_, _, _, _, _)
MatchItems(pat, k, s, pos) ==
    IF k > Len(pat) THEN <<>>
    ELSE TryCount(pat, k, s, pos, RunLen(s, pos, pat[k].cls, pat[k].hi))

TryCount(pat, k, s, pos, c) ==
    IF c < pat[k].lo THEN NoMatch
    ELSE LET rest == MatchItems(pat, k + 1, s, pos + c)
         IN  IF rest = NoMatch THEN TryCount(pat, k, s, pos, c - 1)
             ELSE <<pos + c>> \o rest

\* re.search(pat, s): [at |-> start, ends |-> position after each item]; at = 0: None
RECURSIVE SearchFrom(_, _, _)
SearchFrom(pat, s, i) ==
    IF i > Len(s) + 1 THEN [at |-> 0, ends |-> <<>>]
    ELSE LET m == MatchItems(pat, 1, s, i)
         IN  IF m = NoMatch THEN SearchFrom(pat, s, i + 1)
             ELSE [at |-> i, ends |-> m]

Search(pat, s) == SearchFrom(pat, s, 1)

\* match.group(1) when the group spans items g1..g2 of the pattern
Group(s, m, g1, g2) ==
    SubSeq(s, IF g1 = 1 THEN m.at ELSE m.ends[g1 - 1], m.ends[g2] - 1)

\* r"(\+?1?[\s\-\.]?\(?\d{3}\)?[\s\-\.]?\d{3}[\s\-\.]?\d{4})"
PatUS == <<Opt("+"), Opt("1"), Opt("sep"), Opt("("), Rep("digit", 3, 3), Opt(")"),
           Opt("sep"), Rep("digit", 3, 3), Opt("sep"), Rep("digit", 4, 4)>>

\* r"(\+\d{1,3}[\s\-\.]?\d{1,4}[\s\-\.]?\d{1,4}[\s\-\.]?\d{1,9})"
PatIntl == <<One("+"), Rep("digit", 1, 3), Opt("sep"), Rep("digit", 1, 4), Opt("sep"),
             Rep("digit", 1, 4), Opt("sep"), Rep("digit", 1, 9)>>

\* r"(\(?\d{3}\)?[\s\-\.]?\d{3}[\s\-\.]?\d{4})"
PatSimpleUS == <<Opt("("), Rep("digit", 3, 3), Opt(")"), Opt("sep"), Rep("digit", 3, 3),
                 Opt("sep"), Rep("digit", 4, 4)>>

\* r"(\d{3}[\s\-\.]\d{3}[\s\-\.]\d{4})"
PatDotted == <<Rep("digit", 3, 3), One("sep"), Rep("digit", 3, 3), One("sep"),
               Rep("digit", 4, 4)>>

phone_patterns == <<PatUS, PatIntl, PatSimpleUS, PatDotted>>

\* r"(\+?\d[\d\-\.\s\(\)]{7,}\d)"
PatPhoneLabel == <<Opt("+"), One("digit"), Rep("phonech", 7, -1), One("digit")>>

\* r"\d"
PatDigit == <<One("digit")>>

\* r"\d{3}.*\d{3}.*\d{4}"
PatThreeThreeFour == <<Rep("digit", 3, 3), Rep("any", 0, -1), Rep("digit", 3, 3),
                       Rep("any", 0, -1), Rep("digit", 4, 4)>>

\* r"(https?://[^\s]+)" and r"(https?://[^\s\n]+)"
PatUrl == Lit("http") \o <<Opt("s")>> \o Lit("://") \o <<Rep("nonspace", 1, -1)>>

\* r"(\d\.\d)\s*<star>", the group is items 1..3
PatRatingStar == <<One("digit"), One("."), One("digit"), Rep("space", 0, -1), One(STAR)>>

\* r"Rated\s+(\d\.\d)\s+out of", the group is items 7..9
PatRatingRated == Lit("Rated") \o <<Rep("space", 1, -1), One("digit"), One("."),
                  One("digit"), Rep("space", 1, -1)>> \o Lit("out of")

(***************************************************************************)
(* GoogleMapsScraper: the pure helpers.                                    *)
(*                                                                         *)
(* A card (a rendered result item, a WebElement) is a record               *)
(*   rid, aria     its data-result-id and aria-label attributes (or NONE)  *)
(*   text          its .text                                               *)
(*   handle        str(id(card_element))                                   *)
(*   tel           the href of each a[href^='tel:'] under it               *)
(*   phone_buttons [aria, text] of each phone/call button under it         *)
(*   elems         the text of each a, span, div, button under it          *)
(*   links         the href of each website link under it                  *)
(*   web_buttons   the aria-label of each website button under it          *)
(* An optional value (a lead or None) is a sequence of length <= 1.        *)
(***************************************************************************)

\* `x or ""` for an attribute value
OrEmpty(x) == IF x = NONE THEN "" ELSE x

\* _clean_phone_text
CleanPhoneText(phone_text) ==
    LET p1 == IF StartsWith(phone_text, "Phone:")
              THEN Strip(AfterFirst(phone_text, "Phone:")) ELSE phone_text
        p2 == IF StartsWith(p1, "Call:") THEN Strip(AfterFirst(p1, "Call:")) ELSE p1
    IN  IF p2 = "" THEN NA ELSE p2

\* [p.strip() for p in parts]
RECURSIVE StripAll(_)
StripAll(parts) ==
    IF parts = <<>> THEN <<>> ELSE <<Strip(Head(parts))>> \o StripAll(Tail(parts))

\* the state code as the address writes it, not put in upper case
GetStateAsWritten(address) ==
    LET parts == StripAll(Split(address, ","))
    IN  IF Len(parts) >= 3
        THEN LET words == SplitWs(parts[Len(parts)])
             IN  IF words = <<>> THEN NA
                 ELSE IF Len(words[1]) = 2 /\ IsAlpha(words[1]) THEN words[1]
                 ELSE NA
        ELSE NA

\* _get_state_from_address; state_zip.split()[0] raises IndexError on a blank
\* last part, which the except clause turns into "N/A"
GetStateFromAddress(address) ==
    LET parts == StripAll(Split(address, ","))
    IN  IF Len(parts) >= 3
        THEN LET words == SplitWs(parts[Len(parts)])
             IN  IF words = <<>> THEN NA
                 ELSE IF Len(words[1]) = 2 /\ IsAlpha(words[1]) THEN Upper(words[1])
                 ELSE NA
        ELSE NA

\* _card_identifier (card_element.text raising is the caller's stale case)
CardIdentifier(card) ==
    LET candidates == <<card.rid, card.aria,
                        IF card.text # "" THEN Split(card.text, "\n")[1] ELSE "">>
        truthy == {i \in 1..3 : candidates[i] # NONE /\ candidates[i] # ""}
    IN  IF truthy # {}
        THEN Strip(candidates[CHOOSE i \in truthy : \A j \in truthy : i <= j])
        ELSE card.handle

street_keywords == <<"St", "Street", "Ave", "Avenue", "Blvd", "Road", "Rd", "Dr", "Lane", "Ln">>

\* the first element of seq satisfying the test, as an optional value
RECURSIVE FirstStreetLine(_)
FirstStreetLine(lines) ==
    IF lines = <<>> THEN NA
    ELSE IF (\E k \in 1..Len(street_keywords) : Contains(Head(lines), street_keywords[k]))
            /\ Search(PatDigit, Head(lines)).at # 0
         THEN Head(lines)
         ELSE FirstStreetLine(Tail(lines))

RECURSIVE FirstCommaLine(_)
FirstCommaLine(lines) ==
    IF lines = <<>> THEN NA
    ELSE IF Contains(Head(lines), ",") /\ HasCharIn(Head(lines), Letters)
         THEN Head(lines)
         ELSE FirstCommaLine(Tail(lines))

\* phone method 1: the tel: links
RECURSIVE PhoneFromTelLinks(_)
PhoneFromTelLinks(tel_links) ==
    IF tel_links = <<>> THEN NA
    ELSE LET href == OrEmpty(Head(tel_links))
         IN  IF StartsWith(href, "tel:") THEN Strip(Replace(href, "tel:", ""))
             ELSE PhoneFromTelLinks(Tail(tel_links))

\* phone method 2: the phone buttons
RECURSIVE PhoneFromButtons(_)
PhoneFromButtons(phone_buttons) ==
    IF phone_buttons = <<>> THEN NA
    ELSE LET btn == Head(phone_buttons)
             aria_label == OrEmpty(btn.aria)
             labelled == Contains(Lower(aria_label), "phone") \/ Contains(Lower(aria_label), "call")
             m1 == Search(PatPhoneLabel, aria_label)
             btn_text == Strip(btn.text)
             m2 == Search(PatPhoneLabel, btn_text)
         IN  IF labelled /\ m1.at # 0 THEN Strip(Group(aria_label, m1, 1, 4))
             ELSE IF btn_text # "" /\ Search(PatDigit, btn_text).at # 0 /\ m2.at # 0
                  THEN Strip(Group(btn_text, m2, 1, 4))
             ELSE PhoneFromButtons(Tail(phone_buttons))

\* phone method 3: the patterns, in order, on the whole card text
RECURSIVE PhoneFromText(_, _)
PhoneFromText(text, k) ==
    IF k > Len(phone_patterns) THEN NA
    ELSE LET m == Search(phone_patterns[k], text)
         IN  IF m.at # 0 THEN Strip(Group(text, m, 1, Len(phone_patterns[k])))
             ELSE PhoneFromText(text, k + 1)

\* phone method 4: any descendant element with phone-like text
RECURSIVE PhoneFromElements(_)
PhoneFromElements(all_elements) ==
    IF all_elements = <<>> THEN NA
    ELSE LET elem_text == Head(all_elements)
             m == Search(PatPhoneLabel, elem_text)
         IN  IF elem_text # "" /\ Search(PatThreeThreeFour, elem_text).at # 0 /\ m.at # 0
             THEN Strip(Group(elem_text, m, 1, 4))
             ELSE PhoneFromElements(Tail(all_elements))

IsMapsUrl(url) == Contains(url, "google.com/maps") \/ Contains(url, "maps.google.com")

\* website method 1: the links
RECURSIVE WebsiteFromLinks(_)
WebsiteFromLinks(website_links) ==
    IF website_links = <<>> THEN NA
    ELSE LET href == OrEmpty(Head(website_links))
         IN  IF href # "" /\ (StartsWith(href, "http://") \/ StartsWith(href, "https://"))
                /\ ~IsMapsUrl(href)
             THEN href
             ELSE WebsiteFromLinks(Tail(website_links))

\* website method 2: the website buttons' aria-labels
RECURSIVE WebsiteFromButtons(_)
WebsiteFromButtons(website_buttons) ==
    IF website_buttons = <<>> THEN NA
    ELSE LET aria_label == OrEmpty(Head(website_buttons))
             m == Search(PatUrl, aria_label)
         IN  IF m.at # 0 THEN Group(aria_label, m, 1, Len(PatUrl))
             ELSE WebsiteFromButtons(Tail(website_buttons))

\* website method 3: a URL in the card text
WebsiteFromText(text) ==
    LET m == Search(PatUrl, text)
        potential_url == Group(text, m, 1, Len(PatUrl))
    IN  IF m.at # 0 /\ ~IsMapsUrl(potential_url) THEN potential_url ELSE NA

\* the rating rules
RatingFromText(text) ==
    LET m1 == Search(PatRatingStar, text)
        m2 == Search(PatRatingRated, text)
    IN  IF m1.at # 0 THEN Group(text, m1, 1, 3)
        ELSE IF m2.at # 0 THEN Group(text, m2, 7, 9)
        ELSE NA

\* _extract_from_card; stale: reading card_element.text raises, and the
\* except clause of the function returns None
ExtractFromCard(card, category, place, stale) ==
    LET text == card.text
        lines == NonEmptyStripped(Split(text, "\n"))
    IN  IF stale \/ Strip(text) = "" \/ lines = <<>> THEN <<>>
        ELSE
        LET name == lines[1]
            street == FirstStreetLine(Tail(lines))
            address == IF street = NA THEN FirstCommaLine(Tail(lines)) ELSE street
            state0 == GetStateFromAddress(address)
            state == IF state0 = NA /\ Contains(place, ",")
                     THEN LET segs == Split(place, ",") IN Strip(segs[Len(segs)])
                     ELSE state0
            phone1 == PhoneFromTelLinks(card.tel)
            phone2 == IF phone1 = NA THEN PhoneFromButtons(card.phone_buttons) ELSE phone1
            phone3 == IF phone2 = NA THEN PhoneFromText(text, 1) ELSE phone2
            phone4 == IF phone3 = NA THEN PhoneFromElements(card.elems) ELSE phone3
            website1 == WebsiteFromLinks(card.links)
            website2 == IF website1 = NA THEN WebsiteFromButtons(card.web_buttons) ELSE website1
            website3 == IF website2 = NA THEN WebsiteFromText(text) ELSE website2
        IN  <<[name |-> name,
               address |-> address,
               state |-> state,
               phone |-> CleanPhoneText(phone4),
               website |-> website3,
               category |-> category,
               rating |-> RatingFromText(text)]>>

(***************************************************************************)
(* Bounds and inputs                                                       *)
(***************************************************************************)
MaxResults == 2
MaxCards == 2
MaxScrollTop == 1

\* the cards the feed may render, in any order and any number of times
CardA == [rid |-> "r1", aria |-> NONE, text |-> "A\n(718) 555-0199", handle |-> "140",
          tel |-> <<>>, phone_buttons |-> <<>>, elems |-> <<>>,
          links |-> <<"https://a.com">>, web_buttons |-> <<>>]
\* the same item while its text has not been rendered yet
CardABlank == [CardA EXCEPT !.text = "", !.links = <<>>]
CardB == [rid |-> NONE, aria |-> NONE, text |-> "B\n1 Main St, Q, NY 1\n4.5 *", handle |-> "141",
          tel |-> <<>>, phone_buttons |-> <<>>, elems |-> <<>>,
          links |-> <<"https://www.google.com/maps/place/B">>, web_buttons |-> <<>>]

CardUniverse == {CardA, CardABlank, CardB}

\* the lists of at most n cards
RECURSIVE CardListsUpTo(_)
CardListsUpTo(n) ==
    IF n = 0 THEN {<<>>}
    ELSE LET shorter == CardListsUpTo(n - 1)
         IN  shorter \cup {Append(cs, c) : cs \in {l \in shorter : Len(l) = n - 1}, c \in CardUniverse}

CardLists == CardListsUpTo(MaxCards)

Queries == {"bars"}
Locations == {"Queens, NY"}

\* what the page body shows when the feed does not appear
PageBodies == {"", "No results found", "Your search didn't match"}

(***************************************************************************)
(* State                                                                   *)
(***************************************************************************)
VARIABLES
    entry,                     \* the method that was called from outside
    pc,                        \* the position of the running call
    query, location, max_results,  \* the arguments of search_businesses
    results, seen_ids, pages_without_new, consecutive_empty_scrolls,
    captcha_detected, attempt, \* locals of search_businesses
    leads, max_clicks,         \* the arguments of enrich_missing_phones
    hashable,                  \* the lead objects passed in define __hash__
    name_to_lead, clicks_done, cards, new_clicks_this_page,
                               \* locals of enrich_missing_phones
    all_leads, counts, search_i, handed,
                               \* locals of scrape_leads and run_full_pipeline
    retval,                    \* the value the call returned
    given, out,                \* the arguments and the result of a helper
                               \* that is called on its own
    obs                        \* what an observer of the browser has seen

\* pages_without_new and captcha_detected are locals of both search_businesses
\* and enrich_missing_phones, query and location arguments of both.
\* obs.gets, obs.submits, obs.loads: driver.get calls, query submissions and
\* _load_initial_results calls of this call; obs.checked: the challenge check
\* has run; obs.signalled: the operator answered input(); obs.blocked_op: a
\* submission, load, scroll, click or extraction happened while a detected
\* challenge was not yet signalled; obs.no_results: the latest load attempt
\* found the "no results" phrase; obs.result_ids: the identifier of the card
\* each lead of results came from; obs.again: the identifiers of the cards
\* that were skipped because their identifier had been seen;
\* obs.late_extract: an extraction started when len(results) >= max_results;
\* obs.cards_left: the for loop was left at the target with cards not yet
\* looked at; obs.leads0: the leads passed to enrich_missing_phones;
\* obs.offered: a visited detail view offered a value for a field of its lead
\* that was not "N/A"; obs.harvested: the leads search_businesses returned to
\* scrape_leads; obs.tried: the identifiers of the cards whose
\* extraction was started; obs.twice: an extraction was started for an
\* identifier that was in obs.tried; obs.clicks: the cards enrich_missing_phones
\* has clicked, counted up to one more than max_clicks; obs.back_failed: the
\* latest step of enrich_missing_phones tried to go back to the feed and
\* failed; obs.asked: what the call has sent to the platform as its
\* search, the text typed into the search box or the address requested;
\* obs.opened: the leads (by their place in the list) whose detail view
\* enrich_missing_phones has seen rendered; obs.reopened: the detail view of
\* a lead in obs.opened was rendered again
search_vars == <<query, location, max_results, results, seen_ids, pages_without_new,
                 consecutive_empty_scrolls, captcha_detected, attempt>>
enrich_vars == <<leads, max_clicks, hashable, name_to_lead, clicks_done, cards,
                 new_clicks_this_page>>
pipe_vars == <<all_leads, counts, search_i, handed>>
call_vars == <<given, out>>
vars == <<entry, pc, search_vars, enrich_vars, pipe_vars, retval, call_vars, obs>>

\* what a step of search_businesses leaves alone
outside_search == <<entry, enrich_vars, pipe_vars, call_vars>>

NewObs == [gets |-> 0, submits |-> 0, loads |-> 0, checked |-> FALSE, signalled |-> FALSE,
           blocked_op |-> FALSE, no_results |-> FALSE, result_ids |-> <<>>,
           again |-> {}, late_extract |-> FALSE, cards_left |-> FALSE,
           leads0 |-> <<>>, offered |-> FALSE, harvested |-> <<>>,
           tried |-> {}, twice |-> FALSE, clicks |-> 0,
           back_failed |-> FALSE, asked |-> "", opened |-> {}, reopened |-> FALSE]

\* the observer's record of one submission, load, scroll, click or extraction
Acted(o) == [o EXCEPT !.blocked_op = @ \/ (captcha_detected /\ ~o.signalled)]
\* lines 241, 269, 287: f"{query} in {location}"
SearchQuery(q, place) == q \o " in " \o place

\* lines 696-699: the address enrich_missing_phones requests
SearchUrl(q, place) ==
    "https://www.google.com/maps/search/" \o Replace(q, " ", "+") \o "+"
        \o Replace(place, " ", "+")

Submitted(o) == [Acted(o) EXCEPT !.submits = @ + 1, !.asked = SearchQuery(query, location)]
Got(o) == [o EXCEPT !.gets = @ + 1]

(***************************************************************************)
(* search_businesses                                                       *)
(***************************************************************************)
\* one attempt more than the retry budget
MaxRetriesOffByOne == 2 + 1

max_retries == 2
max_pages_without_new == 15
max_empty_scrolls == 5

\* return results
SbReturn(r) == pc' = "sb_returned" /\ retval' = r

\* an exception leaves search_businesses
SbRaise == pc' = "sb_raised" /\ retval' = <<>>

\* line 160: driver.get("https://www.google.com/maps"); a failure of the
\* browser propagates
SbOpen ==
    /\ pc = "sb_open"
    /\ obs' = Got(obs)
    /\ \E ok \in BOOLEAN :
         IF ok THEN pc' = "sb_consent" /\ UNCHANGED retval ELSE SbRaise
    /\ UNCHANGED <<outside_search, search_vars>>

\* lines 163-174: the consent dialog is clicked when present; only
\* NoSuchElementException is passed over
SbConsent ==
    /\ pc = "sb_consent"
    /\ \E dialog \in {"absent", "clicked", "click_failed"} :
         IF dialog = "click_failed" THEN SbRaise ELSE pc' = "sb_captcha" /\ UNCHANGED retval
    /\ UNCHANGED <<outside_search, search_vars, obs>>

\* lines 176-208: an indicator element is displayed, or the page source names
\* a captcha and the recaptcha iframe is found
CaptchaDetected(indicator_displayed, source_mentions, iframe_found) ==
    indicator_displayed \/ (source_mentions /\ iframe_found)

\* a check that goes on without the operator
AfterCaptchaCheckNoWait(detected, waiting, proceeding) == proceeding

\* lines 210-214 and 733-736: the position after the check: input() is called
\* when a challenge was detected
AfterCaptchaCheck(detected, waiting, proceeding) == IF detected THEN waiting ELSE proceeding

SbCaptcha ==
    /\ pc = "sb_captcha"
    /\ \E displayed \in BOOLEAN, source \in BOOLEAN, iframe \in BOOLEAN :
         /\ captcha_detected' = CaptchaDetected(displayed, source, iframe)
         /\ pc' = AfterCaptchaCheck(CaptchaDetected(displayed, source, iframe),
                                   "sb_captcha_wait", "sb_searchbox")
    /\ obs' = [obs EXCEPT !.checked = TRUE]
    /\ UNCHANGED <<outside_search, query, location, max_results, results, seen_ids, pages_without_new,
                   consecutive_empty_scrolls, attempt, retval>>

\* line 213: input(...) returns when the operator presses Enter, and raises
\* EOFError when the standard input is closed; nothing else ends the wait
SbOperatorContinue ==
    /\ pc = "sb_captcha_wait"
    /\ \E answered \in BOOLEAN :
         IF answered
         THEN obs' = [obs EXCEPT !.signalled = TRUE] /\ pc' = "sb_searchbox" /\ UNCHANGED retval
         ELSE SbRaise /\ UNCHANGED obs
    /\ UNCHANGED <<outside_search, search_vars>>

\* lines 216-252: the search box is looked up and the query typed and submitted;
\* no box, or an exception while typing, returns the empty results
SbSearchBox ==
    /\ pc = "sb_searchbox"
    /\ \E found \in BOOLEAN, typed \in BOOLEAN :
         IF found /\ typed
         THEN obs' = Submitted(obs) /\ pc' = "sb_load" /\ UNCHANGED retval
         ELSE SbReturn(results) /\ UNCHANGED obs
    /\ UNCHANGED <<outside_search, search_vars>>

\* "no results" in page_text.lower() or "didn't match" in page_text.lower()
NoResultsPage(page_text) ==
    Contains(Lower(page_text), "no results") \/ Contains(Lower(page_text), "didn't match")

\* _load_initial_results.  feed: the wait for the feed container ended with
\* the container "present", with a "timeout", or with another "error" of the
\* browser; body: the text of <body> (NONE: reading it raised); container:
\* _get_results_container found one; scrolled: the scrolls and card lookups
\* raised nothing; found: a card was found during or after the scrolls.
\* The result is True, False, or an exception that propagates.
LoadInitialResults(feed, body, container, scrolled, found) ==
    IF feed = "error" THEN [ok |-> FALSE, no_results |-> FALSE, raised |-> TRUE]
    ELSE IF feed = "timeout"
    THEN [ok |-> FALSE, no_results |-> body # NONE /\ NoResultsPage(body), raised |-> FALSE]
    ELSE IF ~container THEN [ok |-> FALSE, no_results |-> FALSE, raised |-> FALSE]
    ELSE IF ~scrolled THEN [ok |-> FALSE, no_results |-> FALSE, raised |-> TRUE]
    ELSE [ok |-> found, no_results |-> FALSE, raised |-> FALSE]

\* what the browser may show to one call of _load_initial_results
LoadOutcomes ==
    {LoadInitialResults(feed, body, container, scrolled, found) :
        feed \in {"present", "timeout", "error"}, body \in PageBodies \cup {NONE},
        container \in BOOLEAN, scrolled \in BOOLEAN, found \in BOOLEAN}

Loaded(o, r) ==
    [Acted(o) EXCEPT !.loads = @ + 1, !.no_results = r.no_results]

\* lines 254-273: the attempts of the retry loop; between two attempts the
\* query is typed again, any exception of which is passed over
SbLoad ==
    /\ pc = "sb_load"
    /\ attempt < max_retries
    /\ \E r \in LoadOutcomes, resubmitted \in BOOLEAN :
         IF r.raised
         THEN obs' = Loaded(obs, r) /\ SbRaise /\ UNCHANGED attempt
         ELSE IF r.ok
         THEN obs' = Loaded(obs, r) /\ pc' = "sb_harvest" /\ UNCHANGED <<attempt, retval>>
         ELSE /\ attempt' = attempt + 1
              /\ pc' = IF attempt + 1 < max_retries THEN "sb_load" ELSE "sb_fresh"
              /\ obs' = IF attempt < max_retries - 1 /\ resubmitted
                        THEN Submitted(Loaded(obs, r))
                        ELSE Loaded(obs, r)
              /\ UNCHANGED retval
    /\ UNCHANGED <<outside_search, query, location, max_results, results, seen_ids, pages_without_new,
                   consecutive_empty_scrolls, captcha_detected>>

\* lines 275-299: one fresh page load, one more submission and one more attempt;
\* an exception of the browser on the way returns the empty results
SbFresh ==
    /\ pc = "sb_fresh"
    /\ \E got \in BOOLEAN, typed \in BOOLEAN, r \in LoadOutcomes :
         IF ~got \/ ~typed THEN obs' = Got(obs) /\ SbReturn(results)
         ELSE IF r.ok /\ ~r.raised
         THEN obs' = Loaded(Submitted(Got(obs)), r) /\ pc' = "sb_harvest" /\ UNCHANGED retval
         ELSE obs' = Loaded(Submitted(Got(obs)), r) /\ SbReturn(results)
    /\ UNCHANGED <<outside_search, search_vars>>

\* the identifier and the lead of each card the feed may render
RECURSIVE Tabulate(_, _)
Tabulate(F(_), keys) ==
    IF keys = {} THEN <<>>
    ELSE LET key == CHOOSE member \in keys : TRUE
         IN  (key :> F(key)) @@ Tabulate(F, keys \ {key})

IdOf == Tabulate(CardIdentifier, CardUniverse)

ExtractKey(k) == ExtractFromCard(k[1], k[2], k[3], FALSE)
LeadOf == Tabulate(ExtractKey, CardUniverse \X Queries \X Locations)

\* _scroll_results_panel: no container, or an exception while scrolling, or a
\* scroll position that is positive and did not change, is False
ScrollResultsPanel(container, raised, current_scroll, new_scroll) ==
    IF ~container THEN FALSE
    ELSE IF raised THEN FALSE
    ELSE ~(new_scroll = current_scroll /\ new_scroll > 0)

ScrollOutcomes ==
    {ScrollResultsPanel(container, raised, cur, new) :
        container \in BOOLEAN, raised \in BOOLEAN,
        cur \in 0..MaxScrollTop, new \in 0..MaxScrollTop}

\* the scrolls of the panel: the container was found, an execute_script
\* call raised, and the positions read before and after the scroll
ScrollRuns ==
    [container : BOOLEAN, raised : BOOLEAN, current_scroll : 0..MaxScrollTop,
     new_scroll : 0..MaxScrollTop]

Scrolled(run) ==
    ScrollResultsPanel(run.container, run.raised, run.current_scroll, run.new_scroll)

\* what a scroll did: "still": the position read after it equals the one
\* read before, "moved": it differs, "failed": no container, or an exception
ScrollKind(run) ==
    IF ~run.container \/ run.raised THEN "failed"
    ELSE IF run.new_scroll = run.current_scroll THEN "still"
    ELSE "moved"

\* a loop that forgets the identifiers it has seen
SeenAddNothing(seen, identifier) == seen

\* line 333: seen_ids.add(identifier)
SeenAdd(seen, identifier) == seen \cup {identifier}

\* a loop without the break at the target
TargetNeverReached(res, target) == FALSE

\* line 345: if len(results) >= max_results: break
TargetReached(res, target) == Len(res) >= target

\* what may go stale in one pass over the cards: nothing, or card i before it
\* is identified (get_attribute raises StaleElementReferenceException, which
\* nothing in the loop catches), or card i after it was identified
\* (_extract_from_card catches the exception and returns None)
StaleChoices(cs) ==
    {<<"none", 0>>} \cup ({"identify", "extract"} \X (1..Len(cs)))

\* line 335: info = self._extract_from_card(card, query, location)
InfoOf(card, went_stale) ==
    IF went_stale THEN ExtractFromCard(card, query, location, TRUE)
    ELSE LeadOf[<<card, query, location>>]

\* a loop that puts each new lead in front of the earlier ones
AddedInFront(acc, i, identifier, info) ==
    [acc EXCEPT
        !.n = i,
        !.seen_ids = SeenAdd(@, identifier),
        !.late_extract = @ \/ Len(acc.results) >= max_results,
        !.twice = @ \/ identifier \in acc.tried,
        !.tried = @ \cup {identifier},
        !.results = IF info # <<>> THEN <<info[1]>> \o @ ELSE @,
        !.result_ids = IF info # <<>> THEN <<identifier>> \o @ ELSE @,
        !.new_this_page = IF info # <<>> THEN @ + 1 ELSE @]

\* lines 333-338 for card i: acc after the identifier was added to seen_ids
\* and info, when it is a lead, to the results
Added(acc, i, identifier, info) ==
    [acc EXCEPT
        !.n = i,
        !.seen_ids = SeenAdd(@, identifier),
        !.late_extract = @ \/ Len(acc.results) >= max_results,
        !.twice = @ \/ identifier \in acc.tried,
        !.tried = @ \cup {identifier},
        !.results = IF info # <<>> THEN Append(@, info[1]) ELSE @,
        !.result_ids = IF info # <<>> THEN Append(@, identifier) ELSE @,
        !.new_this_page = IF info # <<>> THEN @ + 1 ELSE @]

\* lines 331-332 for card i: continue
Skipped(acc, i, identifier) == [acc EXCEPT !.n = i, !.again = @ \cup {identifier}]

\* lines 329-346: the for loop over the cards from card i on.  acc is
\* [results, seen_ids, new_this_page, result_ids, again, late_extract, n,
\* broke, raised]: n cards were looked at, broke: the loop was left at line
\* 346, raised: _card_identifier raised.
RECURSIVE ProcessCards(_, _, _, _)
RECURSIVE AfterCard(_, _, _, _)
ProcessCards(cs, i, acc, stale) ==
    IF i > Len(cs) THEN acc
    ELSE IF stale = <<"identify", i>> THEN [acc EXCEPT !.raised = TRUE]
    ELSE IF IdOf[cs[i]] \in acc.seen_ids
    THEN ProcessCards(cs, i + 1, Skipped(acc, i, IdOf[cs[i]]), stale)
    ELSE AfterCard(cs, i, Added(acc, i, IdOf[cs[i]], InfoOf(cs[i], stale = <<"extract", i>>)),
                   stale)

\* lines 345-346 after card i
AfterCard(cs, i, acc, stale) ==
    IF TargetReached(acc.results, max_results) THEN [acc EXCEPT !.broke = TRUE]
    ELSE ProcessCards(cs, i + 1, acc, stale)

\* line 309: the condition of the while loop
HarvestContinues == Len(results) < max_results /\ pages_without_new < max_pages_without_new

\* lines 311-324: no card is listed, and the panel is scrolled
NoCards(moved) ==
    /\ obs' = Acted(obs)
    /\ UNCHANGED <<results, seen_ids>>
    /\ IF ~moved
       THEN /\ consecutive_empty_scrolls' = consecutive_empty_scrolls + 1
            /\ UNCHANGED pages_without_new
            /\ IF consecutive_empty_scrolls + 1 >= max_empty_scrolls
               THEN SbReturn(results)
               ELSE UNCHANGED <<pc, retval>>
       ELSE /\ consecutive_empty_scrolls' = 0
            /\ pages_without_new' = pages_without_new + 1
            /\ UNCHANGED <<pc, retval>>

\* lines 326-367 once the for loop over the cards cs has ended with acc
CardsDone(cs, acc, moved) ==
    /\ results' = acc.results
    /\ seen_ids' = acc.seen_ids
    /\ obs' = [(IF acc.raised /\ acc.n = 0 THEN obs ELSE Acted(obs)) EXCEPT
                 !.result_ids = acc.result_ids,
                 !.again = acc.again,
                 !.late_extract = acc.late_extract,
                 !.tried = acc.tried,
                 !.twice = acc.twice,
                 !.cards_left = acc.broke /\ acc.n < Len(cs)]
    /\ IF acc.raised
       THEN /\ SbRaise
            /\ UNCHANGED <<pages_without_new, consecutive_empty_scrolls>>
       ELSE /\ consecutive_empty_scrolls' = 0
            /\ IF acc.new_this_page = 0
               THEN /\ pages_without_new' = pages_without_new + 1
                    /\ IF ~moved /\ pages_without_new + 1 >= max_pages_without_new
                       THEN SbReturn(acc.results)
                       ELSE UNCHANGED <<pc, retval>>
               ELSE /\ pages_without_new' = 0
                    /\ UNCHANGED <<pc, retval>>

\* the for loop starts with the results and seen_ids of the call
StartOfPass ==
    [results |-> results, seen_ids |-> seen_ids, new_this_page |-> 0,
     result_ids |-> obs.result_ids, again |-> obs.again,
     late_extract |-> obs.late_extract, tried |-> obs.tried,
     twice |-> obs.twice, n |-> 0, broke |-> FALSE, raised |-> FALSE]

\* lines 309-372: one iteration of the harvest loop, or the return after it
SbHarvest ==
    /\ pc = "sb_harvest"
    /\ IF ~HarvestContinues
       THEN /\ SbReturn(results)
            /\ UNCHANGED <<results, seen_ids, pages_without_new, consecutive_empty_scrolls, obs>>
       ELSE \E listed \in BOOLEAN :
         IF ~listed
         THEN \* find_elements raised in _find_result_cards
              /\ SbRaise
              /\ UNCHANGED <<results, seen_ids, pages_without_new, consecutive_empty_scrolls, obs>>
         ELSE \E cs \in CardLists, moved \in ScrollOutcomes :
              IF cs = <<>> THEN NoCards(moved)
              ELSE \E stale \in StaleChoices(cs) :
                     CardsDone(cs, ProcessCards(cs, 1, StartOfPass, stale), moved)
    /\ UNCHANGED <<outside_search, query, location, max_results, captcha_detected, attempt>>

SearchNext ==
    \/ SbOpen
    \/ SbConsent
    \/ SbCaptcha
    \/ SbOperatorContinue
    \/ SbSearchBox
    \/ SbLoad
    \/ SbFresh
    \/ SbHarvest

(***************************************************************************)
(* enrich_missing_phones                                                   *)
(***************************************************************************)
MaxLeads == 2
MaxClicks == 2

max_enrich_pages_without_new == 4

\* the leads a caller may pass: what search_businesses extracts from the
\* cards, and the lead of CardA after its website was lost
LeadA == LeadOf[<<CardA, "bars", "Queens, NY">>][1]
LeadB == LeadOf[<<CardB, "bars", "Queens, NY">>][1]
LeadANoWebsite == [LeadA EXCEPT !.website = NA]
LeadUniverse == {LeadA, LeadB, LeadANoWebsite}

RECURSIVE LeadListsUpTo(_)
LeadListsUpTo(n) ==
    IF n = 0 THEN {<<>>}
    ELSE LET shorter == LeadListsUpTo(n - 1)
         IN  shorter \cup {Append(ls, l) : ls \in {s \in shorter : Len(s) = n - 1}, l \in LeadUniverse}

LeadLists == LeadListsUpTo(MaxLeads)

\* what the detail view may show to _wait_and_get_text ("N/A": nothing found)
PhoneTexts == {"N/A", "Phone: 555-9999", "tel:555-9999", "Call:"}
WebsiteTexts == {"N/A", "https://b.com", "Website: https://b.com", "b.com",
                 "https://www.google.com/maps/place/A"}

\* an update without the guard on the present value
NeedsAnyField(v) == TRUE

\* lines 679-680 and 854, 859: not lead.get(f) or lead[f] == "N/A"
NeedsField(v) == v = NONE \/ v = "" \/ v = NA

\* a pass that takes every lead for one that needs enrichment
EveryLead(ls) == 1..Len(ls)

\* the indexes of the leads in missing_phone + missing_website
Missing(ls) == {i \in 1..Len(ls) : NeedsField(ls[i].phone) \/ NeedsField(ls[i].website)}

\* lines 691: {lead.get("name"): lead for lead in missing if lead.get("name")},
\* as pairs of a name and the index of its lead.  missing comes out of a set,
\* in no particular order, and the last lead of a name in that order is kept.
NameMaps(ls) ==
    LET named == {i \in Missing(ls) : ls[i].name # NONE /\ ls[i].name # ""}
        names == {ls[i].name : i \in named}
    IN  {{<<n, f[n]>> : n \in names} :
            f \in {g \in [names -> named] : \A n \in names : ls[g[n]].name = n}}

\* name_to_lead.get(card_name): the index of the lead, 0 for None
Lookup(map, card_name) ==
    IF \E p \in map : p[1] = card_name
    THEN (CHOOSE p \in map : p[1] = card_name)[2]
    ELSE 0

\* lines 819-825: the phone text of the detail view
PhoneDetail(raw) ==
    LET t1 == IF StartsWith(raw, "tel:") THEN Replace(raw, "tel:", "") ELSE raw
        t2 == IF StartsWith(t1, "Phone:") THEN Strip(AfterFirst(t1, "Phone:")) ELSE t1
        t3 == IF StartsWith(t2, "Call:") THEN Strip(AfterFirst(t2, "Call:")) ELSE t2
    IN  CleanPhoneText(t3)

\* lines 842-850: the website text of the detail view
WebsiteDetail(raw) ==
    LET w1 == IF raw # "" /\ Contains(raw, "google.com/maps") THEN NA ELSE raw
        m == Search(PatUrl, w1)
    IN  IF w1 # "" /\ ~(StartsWith(w1, "http://") \/ StartsWith(w1, "https://"))
        THEN IF m.at # 0 THEN Group(w1, m, 1, Len(PatUrl)) ELSE NA
        ELSE w1

PhoneDetails == {PhoneDetail(t) : t \in PhoneTexts}
WebsiteDetails == {WebsiteDetail(t) : t \in WebsiteTexts}

\* lines 852-862: the lead after a visit of its detail view
UpdateLead(lead, phone_detail, website_detail) ==
    LET l1 == IF phone_detail # NA /\ NeedsField(lead.phone)
              THEN [lead EXCEPT !.phone = phone_detail] ELSE lead
    IN  IF website_detail # NA /\ NeedsField(lead.website)
        THEN [l1 EXCEPT !.website = website_detail] ELSE l1

\* lines 864-866: the lead leaves the pending names when it was updated and
\* now has both fields
Popped(map, card_name, before, after) ==
    IF before # after /\ after.phone # NA /\ after.website # NA
    THEN {p \in map : p[1] # card_name}
    ELSE map

\* the observer's record of a card.click() that raised nothing, and of the
\* navigation back after it
Clicked(o, back) ==
    [Acted(o) EXCEPT !.clicks = Min(@ + 1, max_clicks + 1),
                     !.back_failed = ~back]

\* the observer's record of a rendered detail view of the lead at place k
Opened(o, k) == [o EXCEPT !.reopened = @ \/ k \in o.opened, !.opened = @ \cup {k}]

\* the observer's record of a step without a navigation back
NoBack(o) == [o EXCEPT !.back_failed = FALSE]

\* what a step of enrich_missing_phones leaves alone
outside_enrich == <<entry, query, location, max_results, results, seen_ids,
                    consecutive_empty_scrolls, attempt, max_clicks, hashable, pipe_vars,
                    call_vars>>

\* return leads
EnReturn(ls) == pc' = "en_returned" /\ retval' = ls

\* an exception leaves enrich_missing_phones
EnRaise == pc' = "en_raised" /\ retval' = <<>>

\* lines 679-691.  set(missing_phone + missing_website) hashes every lead of
\* the list: a dict is unhashable, and set() raises TypeError
EnStart ==
    /\ pc = "en_start"
    /\ UNCHANGED <<leads, clicks_done, cards, new_clicks_this_page,
                   pages_without_new, captcha_detected, obs>>
    /\ IF Missing(leads) # {} /\ ~hashable
       THEN EnRaise /\ UNCHANGED name_to_lead
       ELSE IF Missing(leads) = {} \/ max_clicks <= 0
       THEN EnReturn(leads) /\ UNCHANGED name_to_lead
       ELSE /\ name_to_lead' \in NameMaps(leads)
            /\ pc' = "en_open"
            /\ UNCHANGED retval
    /\ UNCHANGED outside_enrich

\* lines 696-700: driver.get(search_url)
EnOpen ==
    /\ pc = "en_open"
    /\ obs' = [Got(obs) EXCEPT !.asked = SearchUrl(query, location)]
    /\ \E ok \in BOOLEAN :
         IF ok THEN pc' = "en_consent" /\ UNCHANGED retval ELSE EnRaise
    /\ UNCHANGED <<leads, name_to_lead, clicks_done, cards, new_clicks_this_page,
                   pages_without_new, captcha_detected, outside_enrich>>

\* lines 702-713: the consent dialog
EnConsent ==
    /\ pc = "en_consent"
    /\ \E dialog \in {"absent", "clicked", "click_failed"} :
         IF dialog = "click_failed" THEN EnRaise ELSE pc' = "en_captcha" /\ UNCHANGED retval
    /\ UNCHANGED <<leads, name_to_lead, clicks_done, cards, new_clicks_this_page,
                   pages_without_new, captcha_detected, obs, outside_enrich>>

\* lines 715-731: an indicator element is displayed (the page source is not read)
EnCaptcha ==
    /\ pc = "en_captcha"
    /\ \E displayed \in BOOLEAN :
         /\ captcha_detected' = CaptchaDetected(displayed, FALSE, FALSE)
         /\ pc' = AfterCaptchaCheck(CaptchaDetected(displayed, FALSE, FALSE),
                                   "en_captcha_wait", "en_load")
    /\ obs' = [obs EXCEPT !.checked = TRUE]
    /\ UNCHANGED <<leads, name_to_lead, clicks_done, cards, new_clicks_this_page,
                   pages_without_new, retval, outside_enrich>>

\* line 735: input(...)
EnOperatorContinue ==
    /\ pc = "en_captcha_wait"
    /\ \E answered \in BOOLEAN :
         IF answered
         THEN obs' = [obs EXCEPT !.signalled = TRUE] /\ pc' = "en_load" /\ UNCHANGED retval
         ELSE EnRaise /\ UNCHANGED obs
    /\ UNCHANGED <<leads, name_to_lead, clicks_done, cards, new_clicks_this_page,
                   pages_without_new, captcha_detected, outside_enrich>>

\* lines 737-742
EnLoad ==
    /\ pc = "en_load"
    /\ \E r \in LoadOutcomes :
         /\ obs' = Loaded(obs, r)
         /\ IF r.raised THEN EnRaise
            ELSE IF ~r.ok THEN EnReturn(leads)
            ELSE pc' = "en_loop" /\ UNCHANGED retval
    /\ clicks_done' = 0
    /\ pages_without_new' = 0
    /\ UNCHANGED <<leads, name_to_lead, cards, new_clicks_this_page,
                   captcha_detected, outside_enrich>>

\* line 744: the condition of the while loop
EnrichContinues ==
    clicks_done < max_clicks /\ pages_without_new < max_enrich_pages_without_new
        /\ name_to_lead # {}

\* lines 744-751 and 898-899: the head of one iteration, or the return after
\* the loop
EnLoop ==
    /\ pc = "en_loop"
    /\ UNCHANGED <<leads, name_to_lead, clicks_done, captcha_detected, outside_enrich>>
    /\ IF ~EnrichContinues
       THEN EnReturn(leads) /\ UNCHANGED <<cards, new_clicks_this_page, pages_without_new, obs>>
       ELSE \E listed \in BOOLEAN :
         IF ~listed
         THEN EnRaise /\ UNCHANGED <<cards, new_clicks_this_page, pages_without_new, obs>>
         ELSE \E cs \in CardLists, moved \in ScrollOutcomes :
           IF cs = <<>>
           THEN /\ obs' = Acted(obs)
                /\ UNCHANGED <<cards, new_clicks_this_page>>
                /\ IF ~moved
                   THEN EnReturn(leads) /\ UNCHANGED pages_without_new
                   ELSE pages_without_new' = pages_without_new + 1 /\ UNCHANGED <<pc, retval>>
           ELSE /\ cards' = cs
                /\ new_clicks_this_page' = 0
                /\ pc' = "en_card"
                /\ UNCHANGED <<pages_without_new, retval, obs>>

\* lines 755-888: the next card of the for loop (cards holds the cards not
\* yet looked at), and lines 890-896 after the last one
EnCard ==
    /\ pc = "en_card"
    /\ UNCHANGED <<captcha_detected, outside_enrich>>
    /\ IF cards = <<>>
       THEN /\ UNCHANGED <<leads, name_to_lead, clicks_done, cards, new_clicks_this_page>>
            /\ IF new_clicks_this_page = 0
               THEN /\ obs' = NoBack(Acted(obs))
                    /\ pages_without_new' = pages_without_new + 1
                    /\ \E moved \in ScrollOutcomes :
                         IF ~moved THEN EnReturn(leads) ELSE pc' = "en_loop" /\ UNCHANGED retval
               ELSE /\ pages_without_new' = 0
                    /\ pc' = "en_loop"
                    /\ obs' = NoBack(obs)
                    /\ UNCHANGED retval
       ELSE
       LET card == Head(cards)
           lines == NonEmptyStripped(Split(card.text, "\n"))
           card_name == lines[1]
           k == IF lines = <<>> THEN 0 ELSE Lookup(name_to_lead, card_name)
       IN  /\ UNCHANGED pages_without_new
           /\ \E outcome \in {"stale", "click_failed", "timeout", "detail_error", "visited"} :
              IF outcome = "stale" \/ (k # 0 /\ outcome = "detail_error")
              THEN \* reading card.text, or the wait for the detail header, raised
                   /\ EnRaise
                   /\ obs' = IF outcome = "stale" THEN obs ELSE Clicked(obs, TRUE)
                   /\ UNCHANGED <<leads, name_to_lead, clicks_done, cards, new_clicks_this_page>>
              ELSE IF k = 0 \/ outcome = "click_failed"
              THEN \* lines 757-771: continue
                   /\ cards' = Tail(cards)
                   /\ obs' = NoBack(obs)
                   /\ UNCHANGED <<leads, name_to_lead, clicks_done, new_clicks_this_page,
                                  pc, retval>>
              ELSE IF outcome = "timeout"
              THEN \* lines 783-796: back is tried, an exception of which is
                   \* passed over, and the loop continues
                   /\ cards' = Tail(cards)
                   /\ \E back \in BOOLEAN : obs' = Clicked(obs, back)
                   /\ UNCHANGED <<leads, name_to_lead, clicks_done, new_clicks_this_page,
                                  pc, retval>>
              ELSE \E phone_detail \in PhoneDetails, website_detail \in WebsiteDetails,
                      back \in BOOLEAN :
                   LET lead == UpdateLead(leads[k], phone_detail, website_detail)
                       pending == Popped(name_to_lead, card_name, leads[k], lead)
                       offers == (phone_detail # NA /\ leads[k].phone # NA)
                                 \/ (website_detail # NA /\ leads[k].website # NA)
                   IN  /\ leads' = [leads EXCEPT ![k] = lead]
                       /\ name_to_lead' = pending
                       /\ clicks_done' = clicks_done + 1
                       /\ new_clicks_this_page' = new_clicks_this_page + 1
                       /\ obs' = [Opened(Clicked(obs, back), k) EXCEPT !.offered = @ \/ offers]
                       /\ IF ~back
                          THEN EnReturn([leads EXCEPT ![k] = lead]) /\ UNCHANGED cards
                          ELSE /\ cards' = IF clicks_done + 1 >= max_clicks \/ pending = {}
                                           THEN <<>> ELSE Tail(cards)
                               /\ UNCHANGED <<pc, retval>>

EnrichNext ==
    \/ EnStart
    \/ EnOpen
    \/ EnConsent
    \/ EnCaptcha
    \/ EnOperatorContinue
    \/ EnLoad
    \/ EnLoop
    \/ EnCard

(***************************************************************************)
(* scrape_leads and run_full_pipeline                                      *)
(***************************************************************************)
\* lead_config.py, with the two lists cut down to their first entries
SEARCH_LOCATIONS == <<"Queens, NY">>
BUSINESS_CATEGORIES == <<"bars">>
MAX_RESULTS_PER_CATEGORY == 10
ENRICH_MISSING_PHONES == TRUE
ENRICH_MAX_CLICKS_PER_SEARCH == 100

\* the searches of the two nested for loops, in their order
Searches ==
    [i \in 1..(Len(SEARCH_LOCATIONS) * Len(BUSINESS_CATEGORIES)) |->
        [location |-> SEARCH_LOCATIONS[((i - 1) \div Len(BUSINESS_CATEGORIES)) + 1],
         category |-> BUSINESS_CATEGORIES[((i - 1) % Len(BUSINESS_CATEGORIES)) + 1]]]

\* lines 146-148: business["search_location"], business["search_category"]
Annotate(business, place, category) ==
    [name |-> business.name, address |-> business.address, state |-> business.state,
     phone |-> business.phone, website |-> business.website,
     category |-> business.category, rating |-> business.rating,
     search_location |-> place, search_category |-> category]

AnnotateAll(businesses, place, category) ==
    [i \in 1..Len(businesses) |-> Annotate(businesses[i], place, category)]

NewCounts == [successful_searches |-> 0, failed_searches |-> 0, zero_result_searches |-> 0]

\* the locals of the two methods before the calls of a search
FreshLocals ==
    /\ results' = <<>>
    /\ seen_ids' = {}
    /\ pages_without_new' = 0
    /\ consecutive_empty_scrolls' = 0
    /\ captcha_detected' = FALSE
    /\ attempt' = 0
    /\ name_to_lead' = {}
    /\ clicks_done' = 0
    /\ cards' = <<>>
    /\ new_clicks_this_page' = 0

\* lines 107-115: the next search of the loops calls search_businesses
SlCallSearch ==
    /\ pc = "sl_next"
    /\ search_i <= Len(Searches)
    /\ query' = Searches[search_i].category
    /\ location' = Searches[search_i].location
    /\ max_results' = MAX_RESULTS_PER_CATEGORY
    /\ FreshLocals
    /\ obs' = [NewObs EXCEPT !.harvested = obs.harvested]
    /\ pc' = "sb_open"
    /\ leads' = <<>>
    /\ max_clicks' = 0
    /\ retval' = <<>>
    /\ UNCHANGED <<entry, call_vars, hashable, pipe_vars>>

\* lines 117-157 after search_businesses returned businesses: the counters,
\* and either the call of enrich_missing_phones with the list of dicts or,
\* without enrichment, lines 146-157
SlAfterSearch ==
    /\ entry = "run_full_pipeline"
    /\ pc = "sb_returned"
    /\ counts' = IF Len(retval) = 0
                 THEN [counts EXCEPT !.zero_result_searches = @ + 1]
                 ELSE [counts EXCEPT !.successful_searches = @ + 1]
    /\ obs' = [obs EXCEPT !.harvested = @ \o retval]
    /\ IF ENRICH_MISSING_PHONES /\ Len(retval) > 0
       THEN /\ leads' = retval
            /\ max_clicks' = ENRICH_MAX_CLICKS_PER_SEARCH
            /\ pc' = "en_start"
            /\ UNCHANGED <<all_leads, search_i>>
       ELSE /\ all_leads' = all_leads \o AnnotateAll(retval, location, query)
            /\ search_i' = search_i + 1
            /\ pc' = "sl_next"
            /\ UNCHANGED <<leads, max_clicks>>
    /\ UNCHANGED <<entry, call_vars, search_vars, hashable, name_to_lead, clicks_done, cards,
                   new_clicks_this_page, handed, retval>>

\* lines 145-157 after enrich_missing_phones returned
SlAfterEnrich ==
    /\ entry = "run_full_pipeline"
    /\ pc = "en_returned"
    /\ all_leads' = all_leads \o AnnotateAll(retval, location, query)
    /\ search_i' = search_i + 1
    /\ pc' = "sl_next"
    /\ UNCHANGED <<entry, call_vars, search_vars, enrich_vars, counts, handed, retval, obs>>

\* lines 159-169: except Exception: the search is counted as failed and the
\* loop continues with the next one
SlExcept ==
    /\ entry = "run_full_pipeline"
    /\ pc \in {"sb_raised", "en_raised"}
    /\ counts' = [counts EXCEPT !.failed_searches = @ + 1]
    /\ search_i' = search_i + 1
    /\ pc' = "sl_next"
    /\ UNCHANGED <<entry, call_vars, search_vars, enrich_vars, all_leads, handed, retval, obs>>

\* main.py lines 385-395: scrape_leads returned all_leads; an empty list ends
\* the run, any other is handed to save_leads_to_sheets
RunSave ==
    /\ pc = "sl_next"
    /\ search_i > Len(Searches)
    /\ handed' = IF all_leads = <<>> THEN handed ELSE <<all_leads>>
    /\ pc' = "run_done"
    /\ retval' = all_leads
    /\ UNCHANGED <<entry, call_vars, search_vars, enrich_vars, all_leads, counts, search_i, obs>>

PipelineNext ==
    \/ SlCallSearch
    \/ SlAfterSearch
    \/ SlAfterEnrich
    \/ SlExcept
    \/ RunSave

(***************************************************************************)
(* Specifications                                                          *)
(***************************************************************************)
\* the variables of the methods that are not running
IdleSearch ==
    /\ max_results = 1
    /\ results = <<>>
    /\ seen_ids = {}
    /\ consecutive_empty_scrolls = 0
    /\ attempt = 0

IdleEnrich ==
    /\ leads = <<>>
    /\ max_clicks = 0
    /\ hashable = FALSE
    /\ name_to_lead = {}
    /\ clicks_done = 0
    /\ cards = <<>>
    /\ new_clicks_this_page = 0

IdlePipeline ==
    /\ all_leads = <<>>
    /\ counts = NewCounts
    /\ search_i = 1
    /\ handed = <<>>

IdleCall ==
    /\ given = <<>>
    /\ out = <<>>

\* a call of search_businesses with arguments from the bounded sets
InitSearch ==
    /\ entry = "search_businesses"
    /\ pc = "sb_open"
    /\ query \in Queries
    /\ location \in Locations
    /\ max_results \in 1..MaxResults
    /\ results = <<>>
    /\ seen_ids = {}
    /\ pages_without_new = 0
    /\ consecutive_empty_scrolls = 0
    /\ captcha_detected = FALSE
    /\ attempt = 0
    /\ IdleEnrich
    /\ IdlePipeline
    /\ IdleCall
    /\ retval = <<>>
    /\ obs = NewObs

\* a call of enrich_missing_phones with arguments from the bounded sets
InitEnrich ==
    /\ entry = "enrich_missing_phones"
    /\ pc = "en_start"
    /\ query \in Queries
    /\ location \in Locations
    /\ leads \in LeadLists
    /\ max_clicks \in 0..MaxClicks
    /\ hashable \in BOOLEAN
    /\ name_to_lead = {}
    /\ clicks_done = 0
    /\ cards = <<>>
    /\ new_clicks_this_page = 0
    /\ pages_without_new = 0
    /\ captcha_detected = FALSE
    /\ IdleSearch
    /\ IdlePipeline
    /\ IdleCall
    /\ retval = <<>>
    /\ obs = [NewObs EXCEPT !.leads0 = leads]

\* run_full_pipeline at the first search of scrape_leads
InitPipeline ==
    /\ entry = "run_full_pipeline"
    /\ pc = "sl_next"
    /\ query = ""
    /\ location = ""
    /\ pages_without_new = 0
    /\ captcha_detected = FALSE
    /\ IdleSearch
    /\ IdleEnrich
    /\ IdlePipeline
    /\ IdleCall
    /\ retval = <<>>
    /\ obs = NewObs

\* the first entry of the harvest loop, after a first load that succeeded
InitHarvest ==
    /\ entry = "search_businesses"
    /\ pc = "sb_harvest"
    /\ query \in Queries
    /\ location \in Locations
    /\ max_results \in 1..MaxResults
    /\ results = <<>>
    /\ seen_ids = {}
    /\ pages_without_new = 0
    /\ consecutive_empty_scrolls = 0
    /\ captcha_detected = FALSE
    /\ attempt = 0
    /\ IdleEnrich
    /\ IdlePipeline
    /\ IdleCall
    /\ retval = <<>>
    /\ obs = [NewObs EXCEPT !.gets = 1, !.checked = TRUE, !.submits = 1, !.loads = 1]

\* the two methods of the scraper, each called on its own
Init == InitSearch \/ InitEnrich

Next == SearchNext \/ EnrichNext

Spec == Init /\ [][Next]_vars

\* the pipeline; the leads it passes on are dicts, so the steps of the
\* enrichment loop are never reached
PipelineStep == SearchNext \/ EnStart \/ PipelineNext

PipelineSpec == InitPipeline /\ [][PipelineStep]_vars

\* the harvest loop, which runs on whenever it can
HarvestSpec == InitHarvest /\ [][SbHarvest]_vars /\ WF_vars(SbHarvest)


(***************************************************************************)
(* _card_identifier and _extract_from_card called on one card              *)
(*                                                                         *)
(* The card texts are put together from a name line, an address line and a *)
(* phone line, each kept beside the text with what it stands for, so that  *)
(* what the extraction returns can be compared with what was put in.       *)
(***************************************************************************)
\* the first line of a card text
NameLines == {"A", "N/A"}

\* the address line of a card text (NONE: the text has none) with the state
\* code it carries (NONE: it carries none)
AddressLines ==
    {[line |-> NONE, state |-> NONE],
     [line |-> "1 Main St, Queens, ny 11375", state |-> "NY"],
     [line |-> "2 Oak Ave, Apt 3, Newark, NJ 07102", state |-> "NJ"],
     [line |-> "1 Main St, Queens, 11375", state |-> NONE],
     [line |-> "1 Main St, Queens", state |-> NONE]}

\* the phone line of a card text (NONE: the text has none) with its digits
PhoneLines ==
    {[line |-> NONE, digits |-> ""],
     [line |-> "(718) 555-0199", digits |-> "7185550199"]}

\* the search locations, each with its part after the last comma, stripped
\* (NONE: it has no comma)
Places ==
    {[text |-> "Queens, NY", tail |-> "NY"],
     [text |-> "Queens", tail |-> NONE],
     [text |-> "Queens,", tail |-> ""]}

\* the texts a card may have that are empty or white space only
BlankTexts == {"", " \n "}

\* what card_element.text is for the lines
TextOf(name_line, address_line, phone_line) ==
    name_line \o (IF address_line = NONE THEN "" ELSE "\n" \o address_line)
              \o (IF phone_line = NONE THEN "" ELSE "\n" \o phone_line)

\* the attribute values of a card: absent, white space only, or a value
AttributeValues == {NONE, " ", "r1"}

\* the tel: links, website links and website buttons under a card
TelLinks == {<<>>, <<"tel:">>, <<"tel:+17185550100">>}
WebsiteLinks == {<<>>, <<"https://www.google.com/maps/place/A">>, <<"https://a.com">>}
WebsiteButtons == {<<>>, <<"Website: https://maps.google.com/?cid=1">>}

\* a card with every sub-element list empty
BareCard(txt) ==
    [rid |-> NONE, aria |-> NONE, text |-> txt, handle |-> "140",
     tel |-> <<>>, phone_buttons |-> <<>>, elems |-> <<>>, links |-> <<>>,
     web_buttons |-> <<>>]

\* the arguments of a call of _extract_from_card: the card, its query and
\* location, whether reading the card's text raises (the element is stale),
\* and what the text was put together from
ExtractInputs ==
    LET written ==
            {[text |-> TextOf(n, a.line, p.line), blank |-> FALSE, address |-> a.line,
              state |-> a.state, digits |-> p.digits] : n \in NameLines, a \in AddressLines, p \in PhoneLines}
        blanks == {[text |-> b, blank |-> TRUE, address |-> NONE, state |-> NONE,
                    digits |-> ""] : b \in BlankTexts}
    IN  {[card |-> [BareCard(t.text) EXCEPT !.tel = tl, !.links = wl, !.web_buttons = wb],
          category |-> "bars", place |-> pl.text, tail |-> pl.tail, stale |-> st,
          blank |-> t.blank, address |-> t.address, state |-> t.state,
          digits |-> t.digits] :
            t \in written \cup blanks, tl \in TelLinks, wl \in WebsiteLinks,
            wb \in WebsiteButtons, pl \in Places, st \in BOOLEAN}

\* the arguments of a call of _card_identifier
IdentifyInputs ==
    {[card |-> [BareCard(t) EXCEPT !.rid = r, !.aria = a]] :
        t \in BlankTexts \cup {"A", " \nA", "A\n(718) 555-0199"},
        r \in AttributeValues, a \in AttributeValues}

InitCard ==
    /\ \/ entry = "_extract_from_card" /\ given \in ExtractInputs
       \/ entry = "_card_identifier" /\ given \in IdentifyInputs
    /\ pc = "call"
    /\ out = <<>>
    /\ query = ""
    /\ location = ""
    /\ pages_without_new = 0
    /\ captcha_detected = FALSE
    /\ IdleSearch
    /\ IdleEnrich
    /\ IdlePipeline
    /\ retval = <<>>
    /\ obs = NewObs

\* what a helper called on its own leaves alone
outside_call == <<entry, given, search_vars, enrich_vars, pipe_vars, retval, obs>>

\* _extract_from_card(card_element, query, location): out is the lead or
\* None, as a sequence of at most one lead
ExtractFromCardCall ==
    /\ entry = "_extract_from_card"
    /\ pc = "call"
    /\ out' = ExtractFromCard(given.card, given.category, given.place, given.stale)
    /\ pc' = "called"
    /\ UNCHANGED outside_call

\* _card_identifier(card_element)
CardIdentifierCall ==
    /\ entry = "_card_identifier"
    /\ pc = "call"
    /\ out' = CardIdentifier(given.card)
    /\ pc' = "called"
    /\ UNCHANGED outside_call

CardNext == ExtractFromCardCall \/ CardIdentifierCall

CardSpec == InitCard /\ [][CardNext]_vars

(***************************************************************************)
(* The operator's interrupt                                                *)
(***************************************************************************)
\* Ctrl-C while run_full_pipeline runs: KeyboardInterrupt is raised in
\* whatever statement is executing.  It is not an Exception, so neither the
\* except clause of scrape_leads (main.py 159-169) nor that of
\* run_full_pipeline (404-406) catches it; the finally clause closes the
\* browser (407-410), main logs the interruption (443-444) and cleans up
\* (447-448).  save_leads_to_sheets is not called on this path.
KeyboardInterrupt ==
    /\ entry = "run_full_pipeline"
    /\ pc \notin {"run_done", "run_interrupted"}
    /\ pc' = "run_interrupted"
    /\ UNCHANGED <<entry, call_vars, search_vars, enrich_vars, pipe_vars, retval, obs>>

\* the pipeline with an operator who may interrupt it at any moment
InterruptStep == PipelineStep \/ KeyboardInterrupt

InterruptSpec == InitPipeline /\ [][InterruptStep]_vars

(***************************************************************************)
(* The enrichment pass on its own, run on whenever it can                  *)
(***************************************************************************)
EnrichFairSpec == InitEnrich /\ [][EnrichNext]_vars /\ WF_vars(EnrichNext)

(***************************************************************************)
(* GoogleSheetsManager.add_leads_batch (src/google_sheets_manager.py)      *)
(*                                                                         *)
(* A row of the sheet is a record of the columns the duplicate check       *)
(* reads: name (column 2), address (column 3) and phone (column 5).  The   *)
(* header row, which connect() ensures, is not part of the rows.           *)
(***************************************************************************)
MaxRows == 2
MaxBatch == 2

BATCH_SIZE == 50
MAX_RETRIES == 5

\* what one call of the wrapped operation may do: succeed, fail with the
\* rate limit answer 429, with another APIError, or with another exception
CallOutcomes == {"ok", "rate_limited", "api_error", "error"}

\* the outcomes of the calls of the wrapped operation, as far as it is called
Schedules == [1..MAX_RETRIES -> CallOutcomes]

\* _retry_with_backoff from attempt n on (n counts from 0): how the call
\* ends, what it returns, and how often the operation was called
RECURSIVE RetryFrom(_, _)
RetryFrom(schedule, n) ==
    IF n >= MAX_RETRIES THEN [how |-> "returned", value |-> NONE, calls |-> n]
    ELSE IF schedule[n + 1] = "ok"
    THEN [how |-> "returned", value |-> "done", calls |-> n + 1]
    ELSE IF schedule[n + 1] = "rate_limited" THEN RetryFrom(schedule, n + 1)
    ELSE IF n < MAX_RETRIES - 1 THEN RetryFrom(schedule, n + 1)
    ELSE [how |-> "raised", value |-> NONE, calls |-> n + 1]

RetryWithBackoff(schedule) == RetryFrom(schedule, 0)

\* what a caller of _retry_with_backoff sees: the operation was done ("ok"),
\* None came back without it ("none"), or an exception ("raised")
RetryKind(r) ==
    IF r.how = "raised" THEN "raised" ELSE IF r.value = NONE THEN "none" ELSE "ok"

RetryKinds == {RetryKind(RetryWithBackoff(schedule)) : schedule \in Schedules}

\* the leads of a batch, and the rows earlier batches left in the sheet
SheetLeadA == [name |-> "A", address |-> "1 Main St", phone |-> "(718) 555-0199"]
SheetLeadALower == [name |-> "a", address |-> "1 MAIN ST", phone |-> NA]
SheetLeadB == [name |-> "B", address |-> NA, phone |-> "718-555-0199"]
SheetLeadC == [name |-> "C", address |-> NA, phone |-> NA]
SheetLeadUnnamed == [name |-> NA, address |-> "2 Oak Ave", phone |-> "555-0100"]
SheetLeads == {SheetLeadA, SheetLeadALower, SheetLeadB, SheetLeadC, SheetLeadUnnamed}
SheetRows == SheetLeads \ {SheetLeadUnnamed}

\* the sequences of at most n members of the set S
RECURSIVE SeqsUpTo(_, _)
SeqsUpTo(S, n) ==
    IF n = 0 THEN {<<>>}
    ELSE LET shorter == SeqsUpTo(S, n - 1)
         IN  shorter \cup {Append(q, m) : q \in {t \in shorter : Len(t) = n - 1}, m \in S}

\* ''.join(filter(str.isdigit, phone))
RECURSIVE DigitsOf(_)
DigitsOf(s) ==
    IF s = "" THEN ""
    ELSE (IF Ch(s, 1) \in Digits THEN Ch(s, 1) ELSE "") \o DigitsOf(SubSeq(s, 2, Len(s)))

\* f"{name.lower()}|{address.lower()}"
Combo(name, address) == Lower(name) \o "|" \o Lower(address)

\* _load_existing_data: the phones and the name+address combinations of the
\* rows; when reading the sheet raises, the except clause returns two empty
\* sets
LoadExistingData(rows, read_ok) ==
    IF ~read_ok THEN [phones |-> {}, combos |-> {}]
    ELSE LET stripped == {[name |-> Strip(rows[i].name), address |-> Strip(rows[i].address),
                           phone |-> Strip(rows[i].phone)] : i \in 1..Len(rows)}
         IN  [phones |-> {DigitsOf(r.phone) :
                             r \in {t \in stripped : t.phone # "" /\ t.phone # NA
                                                     /\ DigitsOf(t.phone) # ""}},
              combos |-> {Combo(r.name, r.address) :
                             r \in {t \in stripped : t.name # "" /\ t.address # ""
                                                     /\ t.address # NA}}]

\* `key in existing_phones`, `combo in existing_name_address`
IsKnown(key, known) == key \in known

\* lines 168-219: the loop over the leads; acc holds existing_phones,
\* existing_name_address, rows_to_add and skipped, and in verdicts what the
\* loop did with each lead
RECURSIVE FilterLeads(_, _)
FilterLeads(batch, acc) ==
    IF batch = <<>> THEN acc
    ELSE
    LET lead == Head(batch)
        name == Strip(lead.name)
        phone == Strip(lead.phone)
        address == Strip(lead.address)
        normalized_phone == DigitsOf(phone)
        has_phone == phone # "" /\ phone # NA
        phone_dup == has_phone /\ normalized_phone # "" /\ IsKnown(normalized_phone, acc.phones)
        phones == IF has_phone /\ ~phone_dup THEN acc.phones \cup {normalized_phone}
                  ELSE acc.phones
        has_combo == ~phone_dup /\ name # "" /\ address # "" /\ address # NA
        combo_dup == has_combo /\ IsKnown(Combo(name, address), acc.combos)
        combos == IF has_combo /\ ~combo_dup THEN acc.combos \cup {Combo(name, address)}
                  ELSE acc.combos
        row == [name |-> name,
                address |-> IF address # "" THEN address ELSE NA,
                phone |-> IF phone # "" THEN phone ELSE NA]
    IN  IF name = "" \/ name = NA
        THEN FilterLeads(Tail(batch), [acc EXCEPT !.skipped = @ + 1,
                                                  !.verdicts = Append(@, "invalid")])
        ELSE IF phone_dup \/ combo_dup
        THEN FilterLeads(Tail(batch), [acc EXCEPT !.phones = phones, !.combos = combos,
                                                  !.skipped = @ + 1,
                                                  !.verdicts = Append(@, "duplicate")])
        ELSE FilterLeads(Tail(batch), [acc EXCEPT !.phones = phones, !.combos = combos,
                                                  !.rows = Append(@, row),
                                                  !.verdicts = Append(@, "accepted")])

\* the number of chunks of BATCH_SIZE rows
ChunkCount(rows) == (Len(rows) + BATCH_SIZE - 1) \div BATCH_SIZE

\* lines 231-254: the rows of the chunks from chunk on whose call of
\* _retry_with_backoff ended as one of kinds
RECURSIVE ChunkRows(_, _, _, _)
ChunkRows(rows, appends, chunk, kinds) ==
    IF chunk > ChunkCount(rows) THEN <<>>
    ELSE (IF appends[chunk] \in kinds
          THEN SubSeq(rows, (chunk - 1) * BATCH_SIZE + 1, Min(chunk * BATCH_SIZE, Len(rows)))
          ELSE <<>>) \o ChunkRows(rows, appends, chunk + 1, kinds)

\* add_leads_batch(leads): what it appends to the sheet and what it returns.
\* read and appends[chunk] tell how the calls of _retry_with_backoff ended:
\* a read that raised or returned None leaves both sets empty, and a chunk
\* is counted as added unless its call raised
AddLeadsBatch(rows, batch, read, appends) ==
    IF batch = <<>>
    THEN [appended |-> <<>>, added |-> 0, skipped |-> 0, failed |-> 0, verdicts |-> <<>>]
    ELSE LET existing == LoadExistingData(rows, read = "ok")
             kept == FilterLeads(batch, [phones |-> existing.phones, combos |-> existing.combos,
                                         rows |-> <<>>, skipped |-> 0, verdicts |-> <<>>])
         IN  [appended |-> ChunkRows(kept.rows, appends, 1, {"ok"}),
              added |-> Len(ChunkRows(kept.rows, appends, 1, {"ok", "none"})),
              skipped |-> kept.skipped,
              failed |-> Len(ChunkRows(kept.rows, appends, 1, {"raised"})),
              verdicts |-> kept.verdicts]

\* the outcomes of the appends of a call: one for each chunk it can have
AppendOutcomes(batch) == [1..((Len(batch) + BATCH_SIZE - 1) \div BATCH_SIZE) -> RetryKinds]

InitSheet ==
    /\ entry = "add_leads_batch"
    /\ given \in {[sheet |-> rows, batch |-> b] :
                     rows \in SeqsUpTo(SheetRows, MaxRows), b \in SeqsUpTo(SheetLeads, MaxBatch)}
    /\ pc = "call"
    /\ out = <<>>
    /\ query = ""
    /\ location = ""
    /\ pages_without_new = 0
    /\ captcha_detected = FALSE
    /\ IdleSearch
    /\ IdleEnrich
    /\ IdlePipeline
    /\ retval = <<>>
    /\ obs = NewObs

\* one call of add_leads_batch; reading the sheet and each append may fail
\* after its retries
AddLeadsBatchCall ==
    /\ entry = "add_leads_batch"
    /\ pc = "call"
    /\ \E read \in RetryKinds, appends \in AppendOutcomes(given.batch) :
         out' = AddLeadsBatch(given.sheet, given.batch, read, appends)
    /\ pc' = "called"
    /\ UNCHANGED outside_call

SheetSpec == InitSheet /\ [][AddLeadsBatchCall]_vars

(***************************************************************************)
(* GoogleSheetsManager._retry_with_backoff                                 *)
(***************************************************************************)
InitRetry ==
    /\ entry = "_retry_with_backoff"
    /\ given \in {[schedule |-> s] : s \in Schedules}
    /\ pc = "call"
    /\ out = <<>>
    /\ query = ""
    /\ location = ""
    /\ pages_without_new = 0
    /\ captcha_detected = FALSE
    /\ IdleSearch
    /\ IdleEnrich
    /\ IdlePipeline
    /\ retval = <<>>
    /\ obs = NewObs

\* one call of _retry_with_backoff
RetryWithBackoffCall ==
    /\ entry = "_retry_with_backoff"
    /\ pc = "call"
    /\ out' = <<RetryWithBackoff(given.schedule)>>
    /\ pc' = "called"
    /\ UNCHANGED outside_call

RetrySpec == InitRetry /\ [][RetryWithBackoffCall]_vars

(***************************************************************************)
(* SMSSender.format_phone_number                                           *)
(***************************************************************************)
MaxPieces == 4

\* the pieces the phone texts of the model are made of
PhonePieces == {"7185550199", "718555019", "1", "+", "-", " ", "N/A", "x"}

RECURSIVE Concat(_)
Concat(pieces) == IF pieces = <<>> THEN "" ELSE Head(pieces) \o Concat(Tail(pieces))

PhoneInputs == {Concat(pieces) : pieces \in SeqsUpTo(PhonePieces, MaxPieces)}

\* re.sub(r'[^\d+]', '', phone): the digits and the plus signs of phone
RECURSIVE DigitsAndPlus(_)
DigitsAndPlus(phone) ==
    IF phone = "" THEN ""
    ELSE (IF Ch(phone, 1) \in Digits \cup {"+"} THEN Ch(phone, 1) ELSE "")
         \o DigitsAndPlus(SubSeq(phone, 2, Len(phone)))

\* format_phone_number(phone): the formatted number or None
FormatPhoneNumber(phone) ==
    IF phone = "" \/ phone = NA THEN NONE
    ELSE LET cleaned == DigitsAndPlus(phone)
         IN  IF StartsWith(cleaned, "+") THEN cleaned
             ELSE IF Len(cleaned) = 10 THEN "+1" \o cleaned
             ELSE IF Len(cleaned) = 11 /\ StartsWith(cleaned, "1") THEN "+" \o cleaned
             ELSE NONE

InitPhone ==
    /\ entry = "format_phone_number"
    /\ given \in {[phone |-> p] : p \in PhoneInputs}
    /\ pc = "call"
    /\ out = <<>>
    /\ query = ""
    /\ location = ""
    /\ pages_without_new = 0
    /\ captcha_detected = FALSE
    /\ IdleSearch
    /\ IdleEnrich
    /\ IdlePipeline
    /\ retval = <<>>
    /\ obs = NewObs

\* one call of format_phone_number
FormatPhoneNumberCall ==
    /\ entry = "format_phone_number"
    /\ pc = "call"
    /\ out' = <<FormatPhoneNumber(given.phone)>>
    /\ pc' = "called"
    /\ UNCHANGED outside_call

PhoneSpec == InitPhone /\ [][FormatPhoneNumberCall]_vars

(***************************************************************************)
(* main, daily_job, run_full_pipeline and send_sms_to_leads                *)
(***************************************************************************)
MaxSheetRows == 2
MaxRuns == 2

\* the phone cells of the sheet, and the lead a run of scrape_leads may find
SmsPhones == {"(718) 555-0199", "+17185550199", NA, "call"}
SmsRows == {[name |-> "A", address |-> NA, phone |-> p, sms_sent |-> s] :
               p \in SmsPhones, s \in {"No", "Yes"}}
ScrapedLead == [name |-> "B", address |-> NA, phone |-> "(718) 555-0199"]

\* what the operator may type at the prompt of send_sms_to_leads
Answers == {"yes", "Yes", " YES ", "y", "no", ""}

\* a prompt that takes every answer for a yes
ConfirmedAlways(answer) == TRUE

\* main.py line 345: input(...).strip().lower(), and line 347
Confirmed(answer) == Lower(Strip(answer)) = "yes"

\* get_leads_without_sms: lead.get("SMS Sent", "").strip().lower() != "yes"
WithoutSms(row) == Lower(Strip(row.sms_sent)) # "yes"

\* main.py lines 326-330: phone and phone != "N/A"
HasPhone(row) == row.phone # "" /\ row.phone # NA

\* lines 311-330: the rows send_sms_to_leads is about to write to, as places
\* in the sheet; a read that fails yields no lead
ValidLeads(sheet, send_to_all, read_ok) ==
    IF ~read_ok THEN {}
    ELSE {i \in 1..Len(sheet) : (send_to_all \/ WithoutSms(sheet[i])) /\ HasPhone(sheet[i])}

\* send_sms(to_number, message) for the lead at place row: no result without
\* a client or without a formatted number, else the result of
\* client.messages.create
SendSms(twilio, to_number, created, row) ==
    IF ~twilio \/ FormatPhoneNumber(to_number) = NONE THEN <<>>
    ELSE IF created
    THEN <<[success |-> TRUE, to |-> FormatPhoneNumber(to_number), row |-> row]>>
    ELSE <<[success |-> FALSE, to |-> to_number, row |-> row]>>

\* send_bulk_sms(leads, ...): the results for the leads at the places valid,
\* from place i on, in the order of the sheet
RECURSIVE SendBulkSms(_, _, _, _, _)
SendBulkSms(sheet, valid, twilio, creates, i) ==
    IF i > Len(sheet) THEN <<>>
    ELSE (IF i \in valid THEN SendSms(twilio, sheet[i].phone, creates[i], i) ELSE <<>>)
         \o SendBulkSms(sheet, valid, twilio, creates, i + 1)

\* update_lead_sms_status(phone, sms_sent=True, ...): the first row whose
\* phone cell equals phone is marked; an exception of the sheet is logged
UpdateLeadSmsStatus(sheet, phone, update_ok) ==
    LET hits == {i \in 1..Len(sheet) : sheet[i].phone = phone}
    IN  IF ~update_ok \/ hits = {} THEN sheet
        ELSE [sheet EXCEPT ![CHOOSE i \in hits : \A j \in hits : i <= j].sms_sent = "Yes"]

\* lines 362-372: the sheet after the updates for the successful results
RECURSIVE UpdateSheet(_, _, _)
UpdateSheet(sheet, sent, update_ok) ==
    IF sent = <<>> THEN sheet
    ELSE UpdateSheet(IF Head(sent).success
                     THEN UpdateLeadSmsStatus(sheet, Head(sent).to, update_ok)
                     ELSE sheet,
                     Tail(sent), update_ok)

\* the messages each lead has received, after the results
RECURSIVE CountTexts(_, _)
CountTexts(texts, sent) ==
    IF sent = <<>> THEN texts
    ELSE CountTexts(IF Head(sent).success
                    THEN [texts EXCEPT ![Head(sent).row] = @ + 1]
                    ELSE texts,
                    Tail(sent))

\* the runs of send_sms_to_leads: the answer at the prompt, whether the sheet
\* could be read and written, and for each row whether Twilio took the message
SmsRuns(sheet) ==
    [answer : Answers, read_ok : BOOLEAN, update_ok : BOOLEAN,
     creates : [1..Len(sheet) -> BOOLEAN]]

\* send_sms_to_leads(send_to_all) on the state o of the run.  o.asked records
\* the latest call: the answer given (None when the prompt was not reached),
\* the messages Twilio took and whether a cell of the sheet was written
SendSmsToLeads(o, send_to_all, twilio, run) ==
    LET valid == ValidLeads(o.sheet, send_to_all, run.read_ok)
        sent == SendBulkSms(o.sheet, valid, twilio, run.creates, 1)
        sheet == UpdateSheet(o.sheet, sent, run.update_ok)
        texts == CountTexts(o.texts, sent)
    IN  IF valid = {}
        THEN [o EXCEPT !.asked = [answer |-> NONE, created |-> 0, updated |-> FALSE]]
        ELSE IF ~Confirmed(run.answer)
        THEN [o EXCEPT !.asked = [answer |-> run.answer, created |-> 0, updated |-> FALSE]]
        ELSE [o EXCEPT !.sheet = sheet, !.texts = texts,
                       !.asked = [answer |-> run.answer,
                                  created |-> Cardinality({n \in 1..Len(sent) : sent[n].success}),
                                  updated |-> sheet # o.sheet]]

\* save_leads_to_sheets(leads): the rows add_leads_batch appends, with
\* "SMS Sent" set to "No"
SaveLeadsToSheets(o, scraped, read, appends) ==
    LET done == AddLeadsBatch(o.sheet, scraped, read, appends).appended
    IN  [o EXCEPT !.sheet = @ \o [n \in 1..Len(done) |->
                                     [name |-> done[n].name, address |-> done[n].address,
                                      phone |-> done[n].phone, sms_sent |-> "No"]],
                  !.texts = @ \o [n \in 1..Len(done) |-> 0]]

\* GoogleMapsScraper.close(): driver.quit() is called when there is a driver
Close(o) == [o EXCEPT !.browser = IF @ = "open" THEN "closed" ELSE @]

\* what a step of a run leaves alone
outside_run == <<entry, given, search_vars, enrich_vars, pipe_vars, retval, obs>>

\* the callers of LeadScraper: main with its two flags, and daily_job, which
\* passes send_sms=False; twilio tells whether the Twilio client was made
RunArgs ==
    {[caller |-> "main", sms_only |-> a, send_sms |-> b, twilio |-> t] :
        a \in BOOLEAN, b \in BOOLEAN, t \in BOOLEAN}
    \cup {[caller |-> "daily_job", sms_only |-> FALSE, send_sms |-> FALSE, twilio |-> t] :
             t \in BOOLEAN}

NewRunState(sheet, texts, runs) ==
    [browser |-> "none", sheet |-> sheet, texts |-> texts, runs |-> runs,
     asked |-> [answer |-> NONE, created |-> 0, updated |-> FALSE]]

InitRun ==
    /\ given \in RunArgs
    /\ entry = given.caller
    /\ pc = "rn_start"
    /\ out \in {NewRunState(sheet, [n \in 1..Len(sheet) |-> 0], 1) :
                   sheet \in SeqsUpTo(SmsRows, MaxSheetRows)}
    /\ query = ""
    /\ location = ""
    /\ pages_without_new = 0
    /\ captcha_detected = FALSE
    /\ IdleSearch
    /\ IdleEnrich
    /\ IdlePipeline
    /\ retval = <<>>
    /\ obs = NewObs

\* LeadScraper(): __init__ calls initialize_components (lines 33-68), which
\* starts the browser (GoogleMapsScraper.setup_driver), then opens the sheet;
\* it re-raises whatever fails.  main calls it outside its try (line 437),
\* daily_job inside (lines 30-47) with scraper still None in its finally
InitializeComponents ==
    /\ pc = "rn_start"
    /\ \E step \in {"no_credentials_file", "no_browser", "browser_script_failed",
                    "sheet_failed", "done"} :
         /\ out' = [out EXCEPT !.browser = IF step \in {"no_credentials_file", "no_browser"}
                                           THEN "none" ELSE "open"]
         /\ pc' = IF step = "done" THEN "rn_ready" ELSE "rn_ended"
    /\ UNCHANGED outside_run

\* main lines 439-449 with --sms-only: send_sms_to_leads, or Ctrl-C at its
\* prompt; the finally calls cleanup
SmsOnly ==
    /\ pc = "rn_ready"
    /\ given.sms_only
    /\ \/ \E run \in SmsRuns(out.sheet) :
            out' = Close(SendSmsToLeads(out, FALSE, given.twilio, run))
       \/ out' = Close(out)
    /\ pc' = "rn_ended"
    /\ UNCHANGED outside_run

\* run_full_pipeline lines 383-390: scrape_leads returns leads, returns none,
\* raises or is interrupted; in the last three cases the finally of
\* lines 404-407 closes the browser
Scrape ==
    /\ pc = "rn_ready"
    /\ ~given.sms_only
    /\ \E ended \in {"leads", "no_leads", "raised", "interrupted"} :
         IF ended = "leads"
         THEN pc' = "rn_save" /\ UNCHANGED out
         ELSE pc' = "rn_cleanup" /\ out' = Close(out)
    /\ UNCHANGED outside_run

\* run_full_pipeline lines 392-407: save_leads_to_sheets, then
\* send_sms_to_leads if send_sms, then the finally; Ctrl-C may end either
Save ==
    /\ pc = "rn_save"
    /\ \E read \in RetryKinds, appends \in AppendOutcomes(<<ScrapedLead>>),
          interrupted \in BOOLEAN :
         IF interrupted
         THEN pc' = "rn_cleanup" /\ out' = Close(out)
         ELSE IF given.send_sms
         THEN pc' = "rn_sms" /\ out' = SaveLeadsToSheets(out, <<ScrapedLead>>, read, appends)
         ELSE /\ pc' = "rn_cleanup"
              /\ out' = Close(SaveLeadsToSheets(out, <<ScrapedLead>>, read, appends))
    /\ UNCHANGED outside_run

\* run_full_pipeline lines 396-407: send_sms_to_leads(send_to_all=False)
PipelineSms ==
    /\ pc = "rn_sms"
    /\ \/ \E run \in SmsRuns(out.sheet) :
            out' = Close(SendSmsToLeads(out, FALSE, given.twilio, run))
       \/ out' = Close(out)
    /\ pc' = "rn_cleanup"
    /\ UNCHANGED outside_run

\* the finally of main (line 449) and of daily_job (lines 43-45): cleanup
Cleanup ==
    /\ pc = "rn_cleanup"
    /\ out' = Close(out)
    /\ pc' = "rn_ended"
    /\ UNCHANGED outside_run

\* the program is started again on the sheet the last run left
RunAgain ==
    /\ pc = "rn_ended"
    /\ out.runs < MaxRuns
    /\ out' = NewRunState(out.sheet, out.texts, out.runs + 1)
    /\ pc' = "rn_start"
    /\ UNCHANGED outside_run

RunNext ==
    \/ InitializeComponents
    \/ SmsOnly
    \/ Scrape
    \/ Save
    \/ PipelineSms
    \/ Cleanup
    \/ RunAgain

RunSpec == InitRun /\ [][RunNext]_vars
(***************************************************************************)
(* Properties                                                              *)
(***************************************************************************)
\* the positions at which a call has ended
Ended == {"sb_returned", "sb_raised", "en_returned", "en_raised", "run_done"}

\* the number of leads of the results that came from the card identifier id
LeadsFrom(id) == Cardinality({i \in 1..Len(obs.result_ids) : obs.result_ids[i] = id})

\* the harvest loop ends in every behaviour, by a return or by an exception
HarvestEnds == <>(pc \in {"sb_returned", "sb_raised"})

\* C1: once in the harvest loop, search_businesses comes to return the
\* leads it has collected, whatever the feed does
HarvestReturnsCollected == (pc = "sb_harvest") ~> (pc = "sb_returned" /\ retval = results)

\* C2: a call of enrich_missing_phones ends by returning the leads it was
\* given, every one of them and in their order, and never by raising
EnrichReturnsInput ==
    (entry = "enrich_missing_phones" /\ pc \in Ended)
        => /\ pc = "en_returned"
           /\ Len(retval) = Len(obs.leads0)
           /\ \A i \in 1..Len(retval) : retval[i].name = obs.leads0[i].name

\* C3: when the run is over, every lead search_businesses returned to
\* scrape_leads is in the list that was handed to save_leads_to_sheets
HarvestedLeadsHandedOver ==
    pc = "run_done"
        => \A i \in 1..Len(obs.harvested) :
             /\ handed # <<>>
             /\ \E j \in 1..Len(handed[1]) :
                  /\ handed[1][j].name = obs.harvested[i].name
                  /\ handed[1][j].address = obs.harvested[i].address
                  /\ handed[1][j].category = obs.harvested[i].category

\* C4: search_businesses does not end with an exception while it holds
\* collected leads
SearchReturnsCollected == pc = "sb_raised" => results = <<>>

\* C5 (as stated): every identifier that was presented again and skipped has
\* exactly one lead in the results
ExactlyOneLeadPerIdentifier == \A id \in obs.again : LeadsFrom(id) = 1

\* C5 (amended): no two leads of the results come from the same identifier,
\* and an identifier presented again has at most one lead
AtMostOneLeadPerIdentifier ==
    /\ Len(obs.result_ids) = Len(results)
    /\ \A id \in seen_ids \cup obs.again : LeadsFrom(id) <= 1
    /\ \A i \in 1..Len(obs.result_ids) : obs.result_ids[i] \in seen_ids

IdentifierSkippedWithLead ==
    pc = "sb_returned" /\ \E id \in obs.again : LeadsFrom(id) = 1

\* C6: len(results) never exceeds max_results, and no extraction starts once
\* len(results) has reached max_results
TargetBound == Len(results) <= max_results /\ ~obs.late_extract

TargetReachedWithCardsLeft ==
    pc = "sb_returned" /\ Len(results) = max_results /\ obs.cards_left

\* C7: in enrich_missing_phones every lead keeps the phone and the website it
\* came with unless that value was "N/A"
NonSentinelKept ==
    entry = "enrich_missing_phones"
        => /\ Len(leads) = Len(obs.leads0)
           /\ \A i \in 1..Len(leads) :
                /\ obs.leads0[i].phone # NA => leads[i].phone = obs.leads0[i].phone
                /\ obs.leads0[i].website # NA => leads[i].website = obs.leads0[i].website

DetailOfferedForFilledField ==
    pc = "en_returned" /\ obs.offered /\ clicks_done > 0

\* C8: in both methods the challenge check comes after the page load and
\* before any submission or load of the feed, and while a detected challenge
\* has not been signalled as solved nothing is submitted, loaded, scrolled,
\* clicked or extracted; the wait is left only when input() returns or raises
ChallengeGate ==
    /\ ~obs.blocked_op
    /\ (obs.submits > 0 \/ obs.loads > 0) => obs.checked
    /\ obs.checked => obs.gets > 0
    /\ pc \in {"sb_captcha_wait", "en_captcha_wait"} => captcha_detected /\ ~obs.signalled
    /\ (captcha_detected /\ ~obs.signalled)
          => pc \in {"sb_captcha_wait", "en_captcha_wait", "sb_raised", "en_raised"}

ChallengeSolvedThenLoaded ==
    captcha_detected /\ obs.signalled /\ obs.loads > 0 /\ pc \in {"sb_harvest", "en_loop"}

\* C9: a load attempt of search_businesses that finds the "no results"
\* phrase ends the call with the empty list: no submission, reload or further
\* attempt follows
NoResultsEndsSearch ==
    [][(entry = "search_businesses" /\ obs'.loads # obs.loads /\ obs'.no_results)
          => (pc' = "sb_returned" /\ retval' = <<>> /\ obs'.submits = obs.submits)]_vars

\* C10: per search at most 2 load attempts before the reload, at most one
\* reload, which comes after 2 failed attempts, then one more submission and
\* one more attempt: at most 3 submissions and 3 attempts in all, and a
\* search that fails them all returns the empty list
RetryBudget ==
    entry = "search_businesses"
        => /\ attempt <= 2
           /\ obs.gets <= 2
           /\ obs.submits <= 3
           /\ obs.loads <= 3
           /\ obs.gets = 1 => obs.loads <= 2 /\ obs.submits <= 2
           /\ obs.gets = 2 => attempt = 2 /\ obs.loads >= 2
           /\ obs.submits <= obs.loads + 1
           /\ (pc = "sb_returned" /\ obs.loads = 3 /\ seen_ids = {}
                 /\ pages_without_new = 0 /\ consecutive_empty_scrolls = 0) => retval = <<>>

AllAttemptsFailed ==
    /\ pc = "sb_returned"
    /\ obs.loads = 3 /\ obs.submits = 3 /\ obs.gets = 2
    /\ retval = <<>>

\* the leads of the list ls that are not in the list handed to
\* save_leads_to_sheets
NotHandedOver(ls) ==
    {i \in 1..Len(ls) :
        \/ handed = <<>>
        \/ ~\E j \in 1..Len(handed[1]) :
              /\ handed[1][j].name = ls[i].name
              /\ handed[1][j].address = ls[i].address
              /\ handed[1][j].category = ls[i].category}

\* C11: when the operator has interrupted the run, the leads collected in
\* the search that was running and in the searches completed before it have
\* been handed to save_leads_to_sheets
InterruptFlushesLeads ==
    pc = "run_interrupted" => NotHandedOver(all_leads) = {} /\ NotHandedOver(results) = {}

\* a call of _extract_from_card has returned a lead
ExtractedLead == entry = "_extract_from_card" /\ pc = "called" /\ out # <<>>

\* the characters of the string s are all in the set cs
OnlyChars(s, cs) == \A i \in 1..Len(s) : Ch(s, i) \in cs

\* C12: a lead that _extract_from_card returns has a name that is not empty
\* and not "N/A", and its address, state, phone, website and rating are
\* never None and never the empty string
LeadFieldsWellFormed ==
    ExtractedLead
        => /\ out[1].name \notin {"", NA, NONE}
           /\ \A v \in {out[1].address, out[1].state, out[1].phone, out[1].website,
                        out[1].rating} : v \notin {"", NONE}

\* C13: the website of a lead that _extract_from_card returns is "N/A" or an
\* absolute http(s) URL outside google.com/maps and maps.google.com
WebsiteAbsoluteNotMaps ==
    ExtractedLead
        => \/ out[1].website = NA
           \/ /\ StartsWith(out[1].website, "http://") \/ StartsWith(out[1].website, "https://")
              /\ ~Contains(out[1].website, "google.com/maps")
              /\ ~Contains(out[1].website, "maps.google.com")

IdentifierNeverEmpty ==
    (entry = "_card_identifier" /\ pc = "called") => out # ""

\* C19: when the text of the card has a 10-digit phone number, the phone of
\* the lead is not "N/A" and is made of digits, '+' and separators only
PhoneFoundInText ==
    (ExtractedLead /\ given.digits # "")
        => /\ out[1].phone # NA
           /\ OnlyChars(out[1].phone, Digits \cup {"+", " ", "-", ".", "(", ")"})

\* C20: the address of a lead is the address line of the card, and its
\* state is the two-letter code of that address in upper case; without one
\* it is the part of the search location after its last comma, and "N/A"
\* when the location has no comma
StateResolved ==
    ExtractedLead
        => /\ out[1].address = (IF given.address # NONE THEN given.address ELSE NA)
           /\ out[1].state = (IF given.state # NONE THEN given.state
                              ELSE IF given.tail # NONE THEN given.tail
                              ELSE NA)

StateFromAddressInUpperCase ==
    /\ ExtractedLead
    /\ given.state = "NY" /\ given.tail = NONE
    /\ out[1].state = "NY"

\* every call of enrich_missing_phones ends, by a return or by an exception
EnrichEnds == <>(pc \in {"en_returned", "en_raised"})

SamePhoneDigits(a, b) == DigitsOf(a.phone) # "" /\ DigitsOf(a.phone) = DigitsOf(b.phone)

\* the rows a and b have the same name and address, letter case aside
SameNameAddress(a, b) == Lower(a.name) = Lower(b.name) /\ Lower(a.address) = Lower(b.address)

\* C17: a row that add_leads_batch appended has neither the phone digits nor
\* the name and address of a row that was in the sheet or of another row the
\* call appended
NoDuplicateRows ==
    (entry = "add_leads_batch" /\ pc = "called")
        => \A i \in 1..Len(out.appended) :
              /\ \A j \in 1..Len(given.sheet) :
                    /\ ~SamePhoneDigits(out.appended[i], given.sheet[j])
                    /\ ~SameNameAddress(out.appended[i], given.sheet[j])
              /\ \A j \in 1..Len(out.appended) :
                    j # i => /\ ~SamePhoneDigits(out.appended[i], out.appended[j])
                             /\ ~SameNameAddress(out.appended[i], out.appended[j])

IsPrefix(s, t) == Len(s) <= Len(t) /\ SubSeq(t, 1, Len(s)) = s

\* the place in the feed cs of the first card with the identifier id
FirstCard(cs, id) ==
    CHOOSE i \in 1..Len(cs) : IdOf[cs[i]] = id /\ \A j \in 1..(i - 1) : IdOf[cs[j]] # id

\* the leads that came after the first n stand in the order in which the
\* feed cs lists their cards
InFeedOrder(cs, n, ids) ==
    \A j, k \in (n + 1)..Len(ids) : j < k => FirstCard(cs, ids[j]) < FirstCard(cs, ids[k])

\* C18: within one search the leads stand in the order in which their items
\* were first discovered: an iteration of the harvest loop leaves the leads
\* it found as they are and appends the leads of the new items in the order
\* in which the feed lists them, and the call returns that list
LeadsInDiscoveryOrder ==
    [][/\ IsPrefix(results, results')
       /\ IsPrefix(obs.result_ids, obs'.result_ids)
       /\ \A cs \in CardLists \ {<<>>} : \A stale \in StaleChoices(cs) :
            LET acc == ProcessCards(cs, 1, StartOfPass, stale)
            IN  (results' = acc.results /\ seen_ids' = acc.seen_ids
                    /\ obs'.result_ids = acc.result_ids)
                => InFeedOrder(cs, Len(results), obs'.result_ids)
       /\ pc' = "sb_returned" => retval' = results']_vars

\* C18 witness: the search returned two leads, the one found first in front
TwoLeadsInDiscoveryOrder ==
    /\ entry = "search_businesses"
    /\ pc = "sb_returned"
    /\ Len(retval) = 2
    /\ obs.result_ids[1] # obs.result_ids[2]
    /\ retval = results

\* at least this many iterations of the harvest loop have passed since the
\* latest one that added a lead: pages_without_new is set to 0 only by an
\* iteration that adds a lead (line 362) and consecutive_empty_scrolls by one
\* that lists cards or moves the panel (lines 320, 326), and no iteration
\* adds to both
IdleIterations == pages_without_new + consecutive_empty_scrolls

\* C21: the harvest loop never makes more than 15 iterations in a row that
\* add no lead
IdleIterationsBound ==
    entry = "search_businesses" => IdleIterations <= max_pages_without_new

\* C22: when no card is listed, a scroll that leaves the position as it was
\* adds one to consecutive_empty_scrolls, the fifth such scroll in a row ends
\* the harvest, and a scroll that changes the position sets the counter to 0
EmptyScrollsCounted ==
    [][\A run \in ScrollRuns :
         (pc = "sb_harvest" /\ HarvestContinues /\ NoCards(Scrolled(run)))
            => /\ ScrollKind(run) = "still"
                    => /\ consecutive_empty_scrolls' = consecutive_empty_scrolls + 1
                       /\ consecutive_empty_scrolls' >= max_empty_scrolls
                              => pc' = "sb_returned"
               /\ ScrollKind(run) = "moved" => consecutive_empty_scrolls' = 0]_vars

\* the search an address of the platform's search page asks for, "+" read as
\* a space; a text typed into the search box is the search it asks for
QueryAsked(s) ==
    IF StartsWith(s, "https://www.google.com/maps/search/")
    THEN Replace(AfterFirst(s, "https://www.google.com/maps/search/"), "+", " ")
    ELSE s

ExtractedOncePerIdentifier ==
    /\ ~obs.twice
    /\ entry = "search_businesses" => obs.tried = seen_ids

\* C23 witness: a card was skipped whose identifier had been seen and had
\* given no lead
SkippedAfterNoLead ==
    /\ pc = "sb_returned"
    /\ \E id \in obs.again : id \in obs.tried /\ LeadsFrom(id) = 0

\* the first of the leads that were passed in needing a phone or a website
\* and carrying the name n; 0 when there is none
FirstNeeding(n) ==
    LET S == {i \in Missing(obs.leads0) : obs.leads0[i].name = n}
    IN  IF S = {} THEN 0 ELSE CHOOSE i \in S : \A j \in S : i <= j

Needing(ls) == {i \in 1..Len(ls) : ls[i].phone = NA \/ ls[i].website = NA}

\* the lead that the card the for loop of enrich_missing_phones has come to
\* stands for in the lookup; 0 when there is none
ClickTarget ==
    IF pc # "en_card" \/ cards = <<>> THEN 0
    ELSE LET names == NonEmptyStripped(Split(Head(cards).text, "\n"))
         IN  IF names = <<>> THEN 0 ELSE Lookup(name_to_lead, names[1])

\* C27: enrich_missing_phones changes nothing but the phone and the website
\* of leads that came with "N/A" for one of the two; a lead that came with
\* both is neither in the lookup, nor clicked, nor changed
OnlyNeedingLeadsTouched ==
    entry = "enrich_missing_phones"
        => /\ Len(leads) = Len(obs.leads0)
           /\ \A i \in 1..Len(leads) :
                /\ [leads[i] EXCEPT !.phone = NA, !.website = NA]
                      = [obs.leads0[i] EXCEPT !.phone = NA, !.website = NA]
                /\ leads[i] # obs.leads0[i] => i \in Needing(obs.leads0)
           /\ \A p \in name_to_lead : p[2] \in Needing(obs.leads0)
           /\ ClickTarget # 0 => ClickTarget \in Needing(obs.leads0)
           /\ pc = "en_returned" => retval = leads

\* C27 witness: the pass has written to one lead and left alone a lead that
\* came with its phone and its website
NeedingLeadWrittenOtherKept ==
    /\ pc = "en_returned"
    /\ \E i, j \in 1..Len(leads) :
         /\ leads[i] # obs.leads0[i]
         /\ j \notin Needing(obs.leads0)
         /\ leads[j] = obs.leads0[j]

\* an attribute value or a line that holds more than white space
Available(v) == v # NONE /\ Strip(v) # ""

\* the identifier the order of priority gives the card: its data-result-id,
\* else its aria-label, else the first non-empty line of its text, else its
\* handle
IdentifierByPriority(card) ==
    LET named == NonEmptyStripped(Split(card.text, "\n"))
    IN  IF Available(card.rid) THEN Strip(card.rid)
        ELSE IF Available(card.aria) THEN Strip(card.aria)
        ELSE IF named # <<>> THEN named[1]
        ELSE card.handle

\* C29: _card_identifier returns the first that the card has of its
\* data-result-id, its aria-label and the first non-empty line of its text,
\* and the handle only when it has none of them
IdentifierFollowsPriority ==
    (entry = "_card_identifier" /\ pc = "called")
        => out = IdentifierByPriority(given.card)

\* the calls a schedule lets _retry_with_backoff make: up to the first that
\* succeeds, MAX_RETRIES when none does
CallsUntilSuccess(schedule) ==
    LET good == {n \in 1..MAX_RETRIES : schedule[n] = "ok"}
    IN  IF good = {} THEN MAX_RETRIES ELSE CHOOSE n \in good : \A m \in good : n <= m

\* C30: _retry_with_backoff calls the operation at most MAX_RETRIES times,
\* returns at the first call that succeeds, and raises when none does: it
\* returns only after a call that succeeded
RetryReturnsOnlySuccess ==
    (entry = "_retry_with_backoff" /\ pc = "called")
        => /\ out[1].calls <= MAX_RETRIES
           /\ out[1].calls = CallsUntilSuccess(given.schedule)
           /\ IF \E n \in 1..MAX_RETRIES : given.schedule[n] = "ok"
              THEN out[1].how = "returned" /\ out[1].value = "done"
              ELSE out[1].how = "raised"

\* C31: the added count add_leads_batch returns is the number of rows it
\* appended to the sheet, and a lead it neither appended nor skipped is
\* counted as failed
AddedCountsAppended ==
    (entry = "add_leads_batch" /\ pc = "called")
        => /\ out.added = Len(out.appended)
           /\ out.failed = Len(given.batch) - out.skipped - Len(out.appended)

\* '+' followed by digits only
IsE164(s) == Len(s) >= 2 /\ Ch(s, 1) = "+" /\ \A i \in 2..Len(s) : Ch(s, i) \in Digits

\* C38: format_phone_number returns None or '+' followed by digits only: of
\* an input without '+' the 10 digits after '+1', its 11 digits that start
\* with 1 after '+', and None for "N/A", for an empty input and for every
\* other input without '+'
FormatsE164OrNone ==
    (entry = "format_phone_number" /\ pc = "called")
        => LET phone == given.phone
               digits == DigitsOf(phone)
           IN  /\ out[1] = NONE \/ IsE164(out[1])
               /\ phone \in {"", NA} => out[1] = NONE
               /\ (phone # NA /\ ~Contains(phone, "+"))
                     => out[1] = IF Len(digits) = 10 THEN "+1" \o digits
                                 ELSE IF Len(digits) = 11 /\ StartsWith(digits, "1")
                                 THEN "+" \o digits
                                 ELSE NONE

\* the leads a and b have the same non-empty phone digits, or the same name
\* and address (not "N/A"), letter case and surrounding white space aside
SameLead(a, b) ==
    \/ SamePhoneDigits(a, b)
    \/ /\ Strip(a.address) \notin {"", NA}
       /\ Combo(Strip(a.name), Strip(a.address)) = Combo(Strip(b.name), Strip(b.address))

\* C36: a lead that add_leads_batch skipped as a duplicate has the phone
\* digits or the name and address of a row of the sheet or of a lead the call
\* accepted before it
SkippedOnlyForAcceptedOrSheet ==
    (entry = "add_leads_batch" /\ pc = "called")
        => \A i \in 1..Len(out.verdicts) :
              out.verdicts[i] = "duplicate"
                 => \/ \E j \in 1..Len(given.sheet) : SameLead(given.batch[i], given.sheet[j])
                    \/ \E j \in 1..(i - 1) : /\ out.verdicts[j] = "accepted"
                                             /\ SameLead(given.batch[i], given.batch[j])

\* the searches scrape_leads has counted
SearchesCounted ==
    counts.successful_searches + counts.zero_result_searches + counts.failed_searches

\* C37: between two searches of scrape_leads every search made so far is
\* counted once, as successful, zero-result or failed, so at the end the
\* three counters add up to the number of searches
EverySearchCountedOnce ==
    (entry = "run_full_pipeline" /\ pc \in {"sl_next", "run_done"})
        => SearchesCounted = search_i - 1

IsRun == entry \in {"main", "daily_job"}

\* C32: over repeated runs with send_to_all=False no lead of the sheet
\* receives more than one successful SMS
AtMostOneSmsPerLead == IsRun => \A i \in 1..Len(out.texts) : out.texts[i] <= 1

\* C33 (as stated): a call of send_sms_to_leads in which a message was sent
\* or a row was updated had the answer "yes", and nothing else, at its
\* prompt; and a pipeline run with send_sms=False sends no message
SendsOnlyOnExactYes ==
    IsRun => /\ (out.asked.created > 0 \/ out.asked.updated) => out.asked.answer = "yes"
             /\ (~given.sms_only /\ ~given.send_sms)
                   => \A i \in 1..Len(out.texts) : out.texts[i] = 0

\* C33 (amended): a call of send_sms_to_leads in which a message was sent or
\* a row was updated had at its prompt an answer that reads "yes" once white
\* space around it is dropped and its letters are lowered; and a pipeline
\* run with send_sms=False sends no message
SendsOnlyOnYes ==
    IsRun => /\ (out.asked.created > 0 \/ out.asked.updated)
                   => /\ out.asked.answer # NONE
                      /\ Lower(Strip(out.asked.answer)) = "yes"
             /\ (~given.sms_only /\ ~given.send_sms)
                   => \A i \in 1..Len(out.texts) : out.texts[i] = 0

\* a first run sent a message after a confirmation; in the second the operator
\* answered "no" at the prompt, and the call has ended with no message sent
\* and no row updated
RefusedAtPrompt ==
    /\ IsRun /\ pc = "rn_ended" /\ out.runs = MaxRuns
    /\ \E i \in 1..Len(out.texts) : out.texts[i] > 0
    /\ out.asked.answer = "no" /\ out.asked.created = 0 /\ ~out.asked.updated

\* C34: when a run has ended, on whatever path, the browser it started has
\* been closed
BrowserClosedAtEnd == (IsRun /\ pc = "rn_ended") => out.browser # "open"

====
